---- MODULE Spec2Model ----
(***************************************************************************)
(* A model of url2bibtex: the handler registry and the converter facade    *)
(* (handler.py, converter.py), the built-in handlers' URL recognition and  *)
(* extraction (handlers/*.py) and the shared fetch layer (utils.py).       *)
(*                                                                         *)
(* Text is modelled as a sequence of symbols.  A URL is a sequence of      *)
(* tokens, each token a piece of text that the handlers' regular           *)
(* expressions treat as a unit; a regular expression is a set of           *)
(* alternatives, each a sequence of token classes, searched for anywhere   *)
(* in the URL as re.search does.                                           *)
(***************************************************************************)
EXTENDS Naturals, Integers, Sequences, FiniteSets, TLC

VARIABLES
    _handlers,   \* HandlerRegistry._handlers: the ordered list of registered handlers
    call,        \* the last facade / handler call and what it did
    _session,    \* utils._session: the module-global shared Session, or None
    made,        \* every Session object constructed so far in the process
    tpc,         \* get_session: each thread's position in the function
    tgot,        \* get_session: the value each thread's call returned
    fetch,       \* fetch_with_retry: the state of the running call
    conv         \* convert / can_convert run by concurrent threads: each thread's call

vars == <<_handlers, call, _session, made, tpc, tgot, fetch, conv>>

None == "None"

(***************************************************************************)
(* URL tokens and the character classes of the handlers' patterns.         *)
(***************************************************************************)
Digits == {"123", "5288526"}
ArxivIds == {"2103.15348"}
Dois == {"10.1000/xyz", "10.5281/zenodo.123", "10.1101/2023.04.25.537981"}
ZenodoDois == {"10.5281/zenodo.123"}
BiorxivDois == {"10.1101/2023.04.25.537981"}
PIIs == {"S1367593121001204", "S0092867425009274"}
CellPIIs == {"S0092-8674(25)00927-4"}
HexIds == {"f235ba0e"}
Words == {"owner", "repo", "cell", "prl", "slug", "page", "forum", "pdf", "YicbFdNTTy",
          "N19-1423", "a"}
\* [a-zA-Z0-9_-]+ , [a-zA-Z0-9_.-]+ , [^/]+ : one path segment
Segment == Words \cup Digits \cup ArxivIds \cup PIIs \cup HexIds

\* the symbols a `bib` query value is written with, and percent-decoding of one symbol
BibSyms == {"@", "a", "%40", "%2540", "%20", "+"}

SampleUrls ==
    { <<"https://", "arxiv.org/", "abs/", "2103.15348">>,
      <<"http://", "arxiv.org/", "pdf/", "2103.15348", "v1", ".pdf">>,
      <<"https://", "doi.org/", "10.1000/xyz">>,
      <<"doi:", "10.1000/xyz">>,
      <<"https://", "pubs.acs.org", "/doi/", "10.1000/xyz">>,
      <<"https://", "journals.aps.org/", "prl", "/", "abstract/", "10.1000/xyz">>,
      <<"https://", "iopscience.iop.org/article/", "10.1000/xyz">>,
      <<"https://", "doi.org/", "10.5281/zenodo.123">>,
      <<"https://", "zenodo.org/", "record/", "123">>,
      <<"https://", "github.com/", "owner", "/", "repo">>,
      <<"https://", "gitlab.com/", "owner", "/", "repo">>,
      <<"https://", "www.", "biorxiv.org/content/", "10.1101/2023.04.25.537981", "v2">>,
      <<"https://", "www.", "sciencedirect.com/science/article/", "pii/", "S1367593121001204">>,
      <<"https://", "www.", "sciencedirect.com/science/article/", "abs/", "pii/", "S1367593121001204">>,
      <<"https://", "www.", "cell.com/", "cell", "/fulltext/", "S0092-8674(25)00927-4">>,
      <<"https://", "openreview.net/", "forum", "?", "id=", "YicbFdNTTy">>,
      <<"https://", "www.", "semanticscholar.org/paper/", "slug", "/", "f235ba0e">>,
      <<"https://", "ieeexplore.ieee.org/", "document/", "5288526">>,
      <<"https://", "aclanthology.org/", "N19-1423", "/">>,
      <<"https://", "aclanthology.org/", "N19-1423", ".bib">>,
      <<"https://", "example.com/", "page">>,
      <<"ftp://", "example.com/", "page">>,
      <<"example.com/", "page">>,
      <<"https://", "example.com/", "page", "?", "bib=">>,
      <<"https://", "example.com/", "page", "?", "id=", "a", "&", "bib=", "a">>,
      <<"https://", "arxiv.org/", "abs/", "2103.15348", "?", "bib=", "@", "a">>,
      <<"https://", "doi.org/", "10.5281/zenodo.123", "?", "bib=", "@", "a">>,
      <<"http://", "[", "example.com/", "page", "?", "bib=", "a">> }

MaxBibLen == 2

RECURSIVE SeqsUpTo(_, _)
SeqsUpTo(S, n) ==
    IF n = 0 THEN {<<>>}
    ELSE LET shorter == SeqsUpTo(S, n - 1)
         IN  shorter \cup {Append(s, x) : s \in shorter, x \in S}

\* URLs whose query string is a single bib parameter with every value up to MaxBibLen symbols
BibUrls ==
    { <<"https://", "example.com/", "page", "?", "bib=">> \o v : v \in SeqsUpTo(BibSyms, MaxBibLen) }

Urls == SampleUrls \cup BibUrls

(***************************************************************************)
(* re.search: some alternative of the pattern matches at some offset.      *)
(***************************************************************************)
MatchAt(url, alt, i) ==
    /\ i + Len(alt) - 1 <= Len(url)
    /\ \A j \in 1..Len(alt) : url[i + j - 1] \in alt[j]

Search(pattern, url) ==
    \E alt \in pattern : \E i \in 1..Len(url) : MatchAt(url, alt, i)

\* a pattern ending in `$`: the alternative must end where the URL ends
SearchAtEnd(pattern, url) ==
    \E alt \in pattern :
        /\ Len(alt) <= Len(url)
        /\ MatchAt(url, alt, Len(url) - Len(alt) + 1)

ARXIV_PATTERN == { << {"arxiv.org/"}, {"abs/", "pdf/", "html/"}, ArxivIds >> }

DOI_PATTERN ==
    { << {"doi.org/"}, Dois >>,
      << {"doi:"}, Dois >>,
      << {"/doi/", "/doi/full/"}, Dois >>,
      << {"journals.aps.org/"}, Segment, {"/"}, {"abstract/", "pdf/"}, Dois >>,
      << {"iopscience.iop.org/article/"}, Dois >> }

BIORXIV_PATTERN == { << {"biorxiv.org/content/"}, BiorxivDois >> }

PII_PATTERN ==
    { << {"sciencedirect.com/science/article/"}, {"pii/"}, PIIs >>,
      << {"sciencedirect.com/science/article/"}, {"abs/"}, {"pii/"}, PIIs >> }

CELL_PATTERN == { << {"cell.com/"}, Segment, {"/fulltext/"}, CellPIIs >> }

OPENREVIEW_PATTERN == { << {"openreview.net/"}, {"forum", "pdf"}, {"?"}, {"id="}, Segment >> }

SEMANTIC_SCHOLAR_PATTERN == { << {"semanticscholar.org/paper/"}, Segment, {"/"}, HexIds >> }

GITHUB_PATTERN == { << {"github.com/"}, Segment, {"/"}, Segment >> }

GITLAB_PATTERN == { << {"gitlab.com/"}, Segment >> }

ZENODO_PATTERN ==
    { << {"zenodo.org/"}, {"record/", "records/"}, Digits >>,
      << {"doi.org/"}, ZenodoDois >> }

IEEE_PATTERN == { << {"ieeexplore.ieee.org/"}, {"document/", "abstract/document/"}, Digits >> }

ACL_PATTERN ==
    { << {"aclanthology.org/", "aclweb.org/anthology/"}, Segment >>,
      << {"aclanthology.org/", "aclweb.org/anthology/"}, Segment, {"/"} >>,
      << {"aclanthology.org/", "aclweb.org/anthology/"}, Segment, {".bib"} >>,
      << {"aclanthology.org/", "aclweb.org/anthology/"}, Segment, {"/"}, {".bib"} >> }

(***************************************************************************)
(* urllib.parse: urlparse(url).query, parse_qs and unquote.                *)
(***************************************************************************)
FirstIndex(s, x) ==
    IF \E i \in 1..Len(s) : s[i] = x
    THEN CHOOSE i \in 1..Len(s) : s[i] = x /\ \A j \in 1..(i - 1) : s[j] # x
    ELSE Len(s) + 1

\* urlparse(url).query: what follows the first `?`
Query(url) == SubSeq(url, FirstIndex(url, "?") + 1, Len(url))

\* unquote: one level of percent-decoding
UnquoteSym(c) ==
    CASE c = "%40" -> "@"
      [] c = "%2540" -> "%40"
      [] c = "%20" -> " "
      [] OTHER -> c

unquote(text) == [i \in 1..Len(text) |-> UnquoteSym(text[i])]

\* parse_qs decodes with unquote after replacing `+` by a space
unquote_plus(text) == unquote([i \in 1..Len(text) |-> IF text[i] = "+" THEN " " ELSE text[i]])

ParamNames == {"bib=", "id="}

\* parse_qs(query): the name=value pairs in order; a pair with a blank value is dropped
\* (keep_blank_values is False)
RECURSIVE parse_qs(_)
parse_qs(q) ==
    IF q = <<>> THEN <<>>
    ELSE LET amp == FirstIndex(q, "&")
             item == SubSeq(q, 1, amp - 1)
             rest == SubSeq(q, amp + 1, Len(q))
             pair == IF Len(item) > 1 /\ item[1] \in ParamNames
                     THEN << [name |-> item[1], value |-> unquote_plus(Tail(item))] >>
                     ELSE <<>>
         IN  pair \o parse_qs(rest)

\* params['bib']: the values of the bib parameters, in order
\* urlparse raises ValueError (Invalid IPv6 URL) on a host with `[` and no `]`
urlparse_raises(url) == \E i \in 1..Len(url) : url[i] = "["

\* params['bib']; can_handle and extract_bibtex both catch what urlparse raises and answer
\* as when the parameter is absent
BibParams(url) ==
    IF urlparse_raises(url) THEN <<>>
    ELSE SelectSeq(parse_qs(Query(url)), LAMBDA p : p.name = "bib=")

(***************************************************************************)
(* Handler.can_handle of the built-in handlers.                            *)
(***************************************************************************)
Handlers ==
    { "UrlParamHandler", "ArxivHandler", "DOIHandler", "BioRxivHandler", "PIIHandler",
      "CellHandler", "OpenReviewHandler", "SemanticScholarHandler", "GitHubHandler",
      "IEEEHandler", "ACLAnthologyHandler", "HTMLMetaHandler" }

startswith(text, prefixes) == Len(text) > 0 /\ text[1] \in prefixes

can_handle(h, url) ==
    CASE h = "UrlParamHandler" -> BibParams(url) # <<>>
      [] h = "ArxivHandler" -> Search(ARXIV_PATTERN, url)
      [] h = "DOIHandler" -> Search(DOI_PATTERN, url)
      [] h = "BioRxivHandler" -> Search(BIORXIV_PATTERN, url)
      [] h = "PIIHandler" -> Search(PII_PATTERN, url)
      [] h = "CellHandler" -> Search(CELL_PATTERN, url)
      [] h = "OpenReviewHandler" -> Search(OPENREVIEW_PATTERN, url)
      [] h = "SemanticScholarHandler" -> Search(SEMANTIC_SCHOLAR_PATTERN, url)
      [] h = "GitHubHandler" ->
            \/ Search(GITHUB_PATTERN, url)
            \/ Search(GITLAB_PATTERN, url)
            \/ Search(ZENODO_PATTERN, url)
      [] h = "IEEEHandler" -> Search(IEEE_PATTERN, url)
      [] h = "ACLAnthologyHandler" -> SearchAtEnd(ACL_PATTERN, url)
      [] h = "HTMLMetaHandler" -> startswith(url, {"http://", "https://"})

(***************************************************************************)
(* Values.  What fetch_with_retry hands back: None, the response bytes,    *)
(* the parsed JSON value, or (429 with an unusable Retry-After) an         *)
(* exception.  A JSON value is null, a number, a string, a list or a dict; *)
(* a dict is a function from its keys to JSON values.                      *)
(***************************************************************************)
FNone == [t |-> "None"]
FBytes(b) == [t |-> "bytes", b |-> b]
FJson(j) == [t |-> "json", v |-> j]
FRaise(e) == [t |-> "raise", exc |-> e]

EmptyDict == [k \in {} |-> None]

JNull == [j |-> "null"]
JNum(n) == [j |-> "num", n |-> n]
JStr(text) == [j |-> "str", s |-> text]
JList(items) == [j |-> "list", items |-> items]
JDict(d) == [j |-> "dict", d |-> d]

\* Python truth value of a JSON value
JTruthy(v) ==
    CASE v.j = "null" -> FALSE
      [] v.j = "num" -> v.n # 0
      [] v.j = "str" -> v.s # <<>>
      [] v.j = "list" -> v.items # <<>>
      [] v.j = "dict" -> DOMAIN v.d # {}

\* Python truth value of what fetch_with_retry returned
Truthy(x) ==
    CASE x.t = "None" -> FALSE
      [] x.t = "bytes" -> x.b # <<>>
      [] x.t = "json" -> JTruthy(x.v)

\* dict.get(key, default) on a JSON dict
Get(v, key, default) == IF key \in DOMAIN v.d THEN v.d[key] ELSE default

\* what a handler's extract_bibtex does: the value it returns or the exception it lets
\* escape, and the network requests it made, in order
RNone(log) == [t |-> "None", log |-> log]
RStr(text, log) == [t |-> "str", v |-> text, log |-> log]
RRaise(e, log) == [t |-> "raise", exc |-> e, log |-> log]

(***************************************************************************)
(* str / bytes methods.  xFF is a byte that is not valid UTF-8.            *)
(***************************************************************************)
Whitespace == {" "}

RECURSIVE lstrip(_)
lstrip(text) ==
    IF text # <<>> /\ Head(text) \in Whitespace THEN lstrip(Tail(text)) ELSE text

RECURSIVE rstrip(_)
rstrip(text) ==
    IF text # <<>> /\ text[Len(text)] \in Whitespace
    THEN rstrip(SubSeq(text, 1, Len(text) - 1))
    ELSE text

strip(text) == rstrip(lstrip(text))

ValidUtf8(b) == \A i \in 1..Len(b) : b[i] # "xFF"

decode_latin1(b) == [i \in 1..Len(b) |-> IF b[i] = "xFF" THEN "y-diaeresis" ELSE b[i]]

decode_ignore(b) == SelectSeq(b, LAMBDA c : c # "xFF")

(***************************************************************************)
(* The matched text of a pattern: the token under the last class of the    *)
(* leftmost match.                                                         *)
(***************************************************************************)
MatchStart(pattern, url) ==
    CHOOSE i \in 1..Len(url) :
        /\ \E alt \in pattern : MatchAt(url, alt, i)
        /\ \A k \in 1..(i - 1) : \A alt \in pattern : ~MatchAt(url, alt, k)

LastGroup(pattern, url) ==
    LET i == MatchStart(pattern, url)
        alt == CHOOSE a \in pattern : MatchAt(url, a, i)
    IN  url[i + Len(alt) - 1]

Request(op, target, id) == [op |-> op, target |-> target, id |-> id]

(***************************************************************************)
(* UrlParamHandler.extract_bibtex                                          *)
(***************************************************************************)
UrlParamHandler_extract_bibtex(url, net) ==
    IF BibParams(url) = <<>> THEN RNone(<<>>)
    ELSE LET encoded_bibtex == BibParams(url)[1].value
             decoded_bibtex == strip(unquote(encoded_bibtex))
         IN  IF decoded_bibtex # <<>> THEN RStr(decoded_bibtex, <<>>) ELSE RNone(<<>>)

(***************************************************************************)
(* DOIHandler.extract_bibtex                                               *)
(***************************************************************************)
DOIHandler_extract_bibtex(url, net) ==
    IF ~Search(DOI_PATTERN, url) THEN RNone(<<>>)
    ELSE LET doi == LastGroup(DOI_PATTERN, url)
             log == << Request("fetch_with_retry", "doi.org", doi) >>
             bibtex == net.doi
         IN  CASE bibtex.t = "raise" -> RRaise(bibtex.exc, log)
               [] bibtex.t # "raise" /\ ~Truthy(bibtex) -> RNone(log)
               [] bibtex.t = "bytes" /\ Truthy(bibtex) ->
                    IF ValidUtf8(bibtex.b)
                    THEN IF strip(bibtex.b) # <<>> THEN RStr(strip(bibtex.b), log)
                         ELSE RNone(log)
                    ELSE RRaise("UnicodeDecodeError", log)
               [] bibtex.t = "json" /\ Truthy(bibtex) ->
                    IF bibtex.v.j = "str"
                    THEN IF strip(bibtex.v.s) # <<>> THEN RStr(strip(bibtex.v.s), log)
                         ELSE RNone(log)
                    ELSE RRaise("AttributeError", log)

(***************************************************************************)
(* BioRxivHandler.extract_bibtex                                           *)
(***************************************************************************)
BioRxivHandler_extract_bibtex(url, net) ==
    IF ~Search(BIORXIV_PATTERN, url) THEN RNone(<<>>)
    ELSE LET doi == LastGroup(BIORXIV_PATTERN, url)
             doi_url == <<"https://", "doi.org/", doi>>
         IN  DOIHandler_extract_bibtex(doi_url, net)

(***************************************************************************)
(* PIIHandler._get_doi_from_pii and PIIHandler.extract_bibtex.  net.get is *)
(* the outcome of the direct requests.get: a RequestException (connection  *)
(* failure, error status, body that is not JSON) or the parsed JSON body.  *)
(* The result is [t |-> "ok", doi |-> a JSON value] or an exception.       *)
(***************************************************************************)
PIIHandler_get_doi_from_pii(pii, net) ==
    LET data == net.get.v
    IN  IF net.get.t = "error" THEN [t |-> "ok", doi |-> JNull]
        ELSE IF data.j # "dict" THEN [t |-> "raise", exc |-> "AttributeError"]
        ELSE LET message == Get(data, "message", JDict(EmptyDict))
             IN  IF message.j # "dict" THEN [t |-> "raise", exc |-> "AttributeError"]
                 ELSE LET items == Get(message, "items", JNull)
                      IN  IF ~JTruthy(items) THEN [t |-> "ok", doi |-> JNull]
                          ELSE IF items.j # "list"
                               THEN [t |-> "raise", exc |-> "KeyError"]
                          ELSE IF items.items[1].j # "dict"
                               THEN [t |-> "raise", exc |-> "AttributeError"]
                          ELSE [t |-> "ok", doi |-> Get(items.items[1], "DOI", JNull)]

\* f"{value}": a string as it is, anything else as its repr
Format(v) == IF v.j = "str" THEN v.s ELSE << "repr" >>

PIIHandler_extract_bibtex(url, net) ==
    IF ~Search(PII_PATTERN, url) THEN RNone(<<>>)
    ELSE LET pii == LastGroup(PII_PATTERN, url)
             log == << Request("requests.get", "api.crossref.org", pii) >>
             found == PIIHandler_get_doi_from_pii(pii, net)
         IN  IF found.t = "raise" THEN RRaise(found.exc, log)
             ELSE IF ~JTruthy(found.doi) THEN RNone(log)
             ELSE LET doi_url == <<"https://", "doi.org/">> \o Format(found.doi)
                      r == DOIHandler_extract_bibtex(doi_url, net)
                  IN  [r EXCEPT !.log = log \o r.log]

(***************************************************************************)
(* CellHandler._normalize_pii and CellHandler.extract_bibtex               *)
(***************************************************************************)
\* an identifier token written out character by character, and back
Spell(token) ==
    CASE token = "S0092-8674(25)00927-4" ->
            << "S", "0", "0", "9", "2", "-", "8", "6", "7", "4", "(", "2", "5", ")",
               "0", "0", "9", "2", "7", "-", "4" >>
      [] token = "S0092867425009274" ->
            << "S", "0", "0", "9", "2", "8", "6", "7", "4", "2", "5", "0", "0", "9", "2", "7",
               "4" >>
      [] OTHER -> << token >>

Unspell(chars) ==
    IF \E t \in CellPIIs \cup PIIs : Spell(t) = chars
    THEN CHOOSE t \in CellPIIs \cup PIIs : Spell(t) = chars
    ELSE "?"

\* a normalization that removes the parentheses and keeps the hyphens
CellHandler_normalize_pii_hyphens(pii_formatted) ==
    SelectSeq(pii_formatted, LAMBDA c : c \notin {"(", ")"})

\* pii_formatted.replace('(', '').replace(')', '').replace('-', ''), on the characters
CellHandler_normalize_pii(pii_formatted) ==
    SelectSeq(pii_formatted, LAMBDA c : c \notin {"(", ")", "-"})

CellHandler_extract_bibtex(url, net) ==
    IF ~Search(CELL_PATTERN, url) THEN RNone(<<>>)
    ELSE LET pii == Unspell(CellHandler_normalize_pii(Spell(LastGroup(CELL_PATTERN, url))))
             fake_url == <<"https://", "www.", "sciencedirect.com/science/article/", "pii/", pii>>
         IN  PIIHandler_extract_bibtex(fake_url, net)

(***************************************************************************)
(* ACLAnthologyHandler.extract_bibtex                                      *)
(***************************************************************************)
ACLAnthologyHandler_extract_bibtex(url, net) ==
    IF ~SearchAtEnd(ACL_PATTERN, url) THEN RNone(<<>>)
    ELSE LET log == << Request("fetch_with_retry", "aclanthology.org", ".bib") >>
             bibtex == net.page
             validated(text) ==
                 IF strip(text) # <<>> /\ startswith(strip(text), {"@"})
                 THEN RStr(strip(text), log)
                 ELSE RNone(log)
         IN  CASE bibtex.t = "raise" -> RRaise(bibtex.exc, log)
               [] bibtex.t # "raise" /\ ~Truthy(bibtex) -> RNone(log)
               [] bibtex.t = "bytes" /\ Truthy(bibtex) ->
                    IF ValidUtf8(bibtex.b) THEN validated(bibtex.b)
                    ELSE validated(decode_latin1(bibtex.b))
               [] bibtex.t = "json" /\ Truthy(bibtex) ->
                    IF bibtex.v.j = "str" THEN validated(bibtex.v.s)
                    ELSE RRaise("AttributeError", log)

(***************************************************************************)
(* IEEEHandler._extract_doi and IEEEHandler.extract_bibtex.  A page is a   *)
(* sequence of symbols; the symbols below stand for the markup the four    *)
(* DOI patterns look for, in the order the patterns are tried.             *)
(***************************************************************************)
DoiMarkup ==
    << [sym |-> "<meta name=citation_doi content=10.1000/xyz>", doi |-> "10.1000/xyz"],
       [sym |-> "https://doi.org/10.5281/zenodo.123", doi |-> "10.5281/zenodo.123"],
       [sym |-> "doi:10.1000/xyz", doi |-> "10.1000/xyz"],
       [sym |-> "xplore-pub-doi:10.1000/xyz", doi |-> "10.1000/xyz"] >>

Contains(text, c) == \E i \in 1..Len(text) : text[i] = c

IEEEHandler_extract_doi(html_content) ==
    IF \E k \in 1..Len(DoiMarkup) : Contains(html_content, DoiMarkup[k].sym)
    THEN LET k == CHOOSE n \in 1..Len(DoiMarkup) :
                      /\ Contains(html_content, DoiMarkup[n].sym)
                      /\ \A m \in 1..(n - 1) : ~Contains(html_content, DoiMarkup[m].sym)
         IN  DoiMarkup[k].doi
    ELSE None

IEEEHandler_extract_bibtex(url, net) ==
    IF ~Search(IEEE_PATTERN, url) THEN RNone(<<>>)
    ELSE LET doc_id == LastGroup(IEEE_PATTERN, url)
             log1 == << Request("fetch_with_retry", "ieeexplore.ieee.org", doc_id) >>
             content == net.page
             negotiate(doi) ==
                 LET log == Append(log1, Request("fetch_with_retry", "doi.org", doi))
                     bibtex == net.doi
                 IN  CASE bibtex.t = "raise" -> RRaise(bibtex.exc, log)
                       [] bibtex.t # "raise" /\ ~Truthy(bibtex) -> RNone(log)
                       [] bibtex.t = "bytes" /\ Truthy(bibtex) ->
                            IF ValidUtf8(bibtex.b)
                            THEN IF strip(bibtex.b) # <<>> THEN RStr(strip(bibtex.b), log)
                                 ELSE RNone(log)
                            ELSE RRaise("UnicodeDecodeError", log)
                       [] bibtex.t = "json" /\ Truthy(bibtex) ->
                            IF bibtex.v.j = "str"
                            THEN IF strip(bibtex.v.s) # <<>> THEN RStr(strip(bibtex.v.s), log)
                                 ELSE RNone(log)
                            ELSE RRaise("AttributeError", log)
             with(html_content) ==
                 IF IEEEHandler_extract_doi(html_content) = None THEN RNone(log1)
                 ELSE negotiate(IEEEHandler_extract_doi(html_content))
         IN  CASE content.t = "raise" -> RRaise(content.exc, log1)
               [] content.t # "raise" /\ ~Truthy(content) -> RNone(log1)
               [] content.t = "bytes" /\ Truthy(content) -> with(decode_ignore(content.b))
               [] content.t = "json" /\ Truthy(content) ->
                    IF content.v.j = "str" THEN with(content.v.s)
                    ELSE RRaise("TypeError", log1)

(***************************************************************************)
(* Rendering.  A BibTeX entry is the text  @type{key, name = {value}, ... } *)
(* as a sequence of symbols.                                               *)
(***************************************************************************)
Field(name, value) == << name, "=", "{" >> \o value \o << "}" >>

RECURSIVE Flatten(_)
Flatten(seqs) == IF seqs = <<>> THEN <<>> ELSE Head(seqs) \o Flatten(Tail(seqs))

Entry(entry_type, bibtex_key, fields) ==
    << "@", entry_type, "{" >> \o bibtex_key \o << "," >> \o Flatten(fields) \o << "}" >>

\* ' and '.join(names)
RECURSIVE JoinAnd(_)
JoinAnd(names) ==
    IF names = <<>> THEN <<>>
    ELSE IF Len(names) = 1 THEN names[1]
    ELSE names[1] \o << " and " >> \o JoinAnd(Tail(names))

\* str.split(): the maximal runs of symbols that are not whitespace
RECURSIVE split(_)
split(text) ==
    LET t == lstrip(text)
        n == IF \E i \in 1..Len(t) : t[i] \in Whitespace
             THEN CHOOSE i \in 1..Len(t) :
                      t[i] \in Whitespace /\ \A k \in 1..(i - 1) : t[k] \notin Whitespace
             ELSE Len(t) + 1
    IN  IF t = <<>> THEN <<>>
        ELSE << SubSeq(t, 1, n - 1) >> \o split(SubSeq(t, n, Len(t)))

\* str.lower() on the symbols names are written with
LowerSym(c) ==
    CASE c = "Jane" -> "jane"
      [] c = "Doe" -> "doe"
      [] c = "O'Neil" -> "o'neil"
      [] c = "Citation_Title" -> "citation_title"
      [] OTHER -> c

lower(text) == [i \in 1..Len(text) |-> LowerSym(text[i])]

\* text[:4]: a date's first symbol is its four-digit year
FirstFour(text) ==
    IF text = <<>> THEN <<>>
    ELSE IF text[1] = "Unknown" THEN << "Unkn" >>
    ELSE << text[1] >>

JAbsent == [j |-> "absent"]

(***************************************************************************)
(* ArxivHandler.extract_bibtex.  The response body is one symbol, the      *)
(* document: text that is not well-formed XML, or a feed with or without   *)
(* an entry; an element of the entry is absent, empty (its .text is None)  *)
(* or has text.                                                            *)
(***************************************************************************)
ArxivHandler_render(arxiv_id, entry, log) ==
    LET names == [i \in 1..Len(entry.authors) |-> entry.authors[i]]
        author_list == SelectSeq(names, LAMBDA n : n.j # "absent")
        authors_str == JoinAnd([i \in 1..Len(author_list) |-> author_list[i].s])
        year == IF entry.published.j = "absent" THEN << "Unknown" >>
                ELSE FirstFour(entry.published.s)
        category == CASE entry.category.j = "absent" -> <<>>
                      [] entry.category.j = "null" -> << "None" >>
                      [] OTHER -> entry.category.s
        title_text == IF entry.title.j = "absent" THEN << "Unknown Title" >>
                      ELSE strip(entry.title.s)
        bibtex_key == IF author_list # <<>>
                      THEN lower(split(author_list[1].s)[Len(split(author_list[1].s))]) \o year
                      ELSE << "arxiv" >> \o year
    IN  CASE entry.title.j = "null" -> RRaise("AttributeError", log)
          [] entry.title.j # "null" /\ \E i \in 1..Len(author_list) : author_list[i].j = "null" ->
                RRaise("TypeError", log)
          [] entry.title.j # "null" /\ (\A i \in 1..Len(author_list) : author_list[i].j # "null")
             /\ entry.published.j = "null" -> RRaise("TypeError", log)
          [] entry.title.j # "null" /\ (\A i \in 1..Len(author_list) : author_list[i].j # "null")
             /\ entry.published.j # "null"
             /\ author_list # <<>> /\ split(author_list[1].s) = <<>> -> RRaise("IndexError", log)
          [] OTHER ->
                RStr(Entry("article", bibtex_key,
                           << Field("title", title_text),
                              Field("author", authors_str),
                              Field("year", year),
                              Field("journal", << "arXiv preprint arXiv:", arxiv_id >>),
                              Field("eprint", << arxiv_id >>),
                              Field("archivePrefix", << "arXiv" >>),
                              Field("primaryClass", category),
                              Field("url", << "https://arxiv.org/abs/", arxiv_id >>) >>),
                     log)

ArxivHandler_parse(arxiv_id, doc, log) ==
    CASE doc.xml = "malformed" -> RNone(log)
      [] doc.xml = "feed" /\ doc.entry = <<>> -> RNone(log)
      [] doc.xml = "feed" /\ doc.entry # <<>> -> ArxivHandler_render(arxiv_id, doc.entry[1], log)

ArxivHandler_extract_bibtex(url, net) ==
    IF ~Search(ARXIV_PATTERN, url) THEN RNone(<<>>)
    ELSE LET arxiv_id == LastGroup(ARXIV_PATTERN, url)
             log == << Request("fetch_with_retry", "export.arxiv.org", arxiv_id) >>
             content == net.api
         IN  CASE content.t = "raise" -> RRaise(content.exc, log)
               [] content.t # "raise" /\ ~Truthy(content) -> RNone(log)
               [] content.t = "bytes" /\ Truthy(content) ->
                    ArxivHandler_parse(arxiv_id, content.b[1], log)
               [] content.t = "json" /\ Truthy(content) ->
                    IF content.v.j = "str" THEN ArxivHandler_parse(arxiv_id, content.v.s[1], log)
                    ELSE RRaise("TypeError", log)

(***************************************************************************)
(* Citation keys: the first author's family name, lower-cased, with        *)
(* re.sub(r'[^a-z0-9]', '', ...) applied.                                  *)
(***************************************************************************)
\* re.sub(r'[^a-z0-9]', '', text): a symbol loses its characters outside [a-z0-9]
RECURSIVE sub_non_alnum(_)
sub_non_alnum(text) ==
    IF text = <<>> THEN <<>>
    ELSE LET c == Head(text)
             kept == CASE c \in {" ", ",", "'", "-", ".", "/"} -> <<>>
                       [] c = "o'neil" -> << "oneil" >>
                       [] c \in {"Jane", "Doe", "O'Neil", "Unknown"} -> <<>>
                       [] OTHER -> << c >>
         IN  kept \o sub_non_alnum(Tail(text))

\* name.split(',')[0]
BeforeComma(text) == SubSeq(text, 1, FirstIndex(text, ",") - 1)

\* a derivation that takes the first word of the name whatever its form
FamilyNameKey_first_word(first_author) ==
    LET parts == split(first_author)
    IN  sub_non_alnum(IF parts # <<>> THEN lower(parts[1]) ELSE << "unknown" >>)

\* "Doe, Jane" -> doe ; "Jane Doe" -> doe ; "" -> unknown
FamilyNameKey(first_author) ==
    LET parts == split(first_author)
        first_author_last ==
            IF Contains(first_author, ",") THEN lower(strip(BeforeComma(first_author)))
            ELSE IF parts # <<>> THEN lower(parts[Len(parts)])
            ELSE << "unknown" >>
    IN  sub_non_alnum(first_author_last)

\* exceptions that `except (KeyError, ValueError)` catches
IsValueError(e) == e \in {"ValueError", "UnicodeDecodeError", "KeyError"}

(***************************************************************************)
(* SemanticScholarHandler.extract_bibtex                                   *)
(***************************************************************************)
SemanticScholarHandler_render(paper_id, data, author_list, log) ==
    LET title == strip(Get(data, "title", JStr(<< "Unknown Title" >>)).s)
        authors_str == JoinAnd(author_list)
        year == IF Get(data, "year", JNull).j = "null" THEN << "Unknown" >>
                ELSE << "2021" >>
        venue0 == Get(data, "venue", JStr(<<>>))
        publication_venue == Get(data, "publicationVenue", JDict(EmptyDict))
        venue == IF ~JTruthy(venue0) /\ JTruthy(publication_venue)
                 THEN Get(publication_venue, "name", JStr(<<>>)).s
                 ELSE venue0.s
        journal_info == Get(data, "journal", JNull)
        journal_name == IF JTruthy(journal_info) THEN Get(journal_info, "name", JNull) ELSE JNull
        external_ids == Get(data, "externalIds", JDict(EmptyDict))
        doi == Get(external_ids, "DOI", JNull)
        arxiv_id == Get(external_ids, "ArXiv", JNull)
        pub_types == Get(data, "publicationTypes", JList(<<>>))
        has(x) == \E i \in 1..Len(pub_types.items) : pub_types.items[i] = JStr(<< x >>)
        bibtex_key == IF author_list # <<>> THEN FamilyNameKey(author_list[1]) \o year
                      ELSE << "semanticscholar" >> \o year
        entry_type == IF has("Conference") THEN "inproceedings"
                      ELSE IF has("JournalArticle") THEN "article"
                      ELSE IF has("Book") THEN "book"
                      ELSE "article"
        venue_field ==
            IF entry_type = "inproceedings" /\ venue # <<>>
            THEN << Field("booktitle", venue) >>
            ELSE IF entry_type = "article" /\ JTruthy(journal_name)
            THEN << Field("journal", journal_name.s) >>
            ELSE IF entry_type = "article" /\ venue # <<>>
            THEN << Field("journal", venue) >>
            ELSE <<>>
        doi_field == IF JTruthy(doi) THEN << Field("doi", Format(doi)) >> ELSE <<>>
        arxiv_fields == IF JTruthy(arxiv_id)
                        THEN << Field("eprint", Format(arxiv_id)),
                                Field("archivePrefix", << "arXiv" >>) >>
                        ELSE <<>>
        url_field == IF ~JTruthy(doi)
                     THEN << Field("url", << "https://www.semanticscholar.org/paper/", paper_id >>) >>
                     ELSE << Field("url", << "https://doi.org/" >> \o Format(doi)) >>
    IN  RStr(Entry(entry_type, bibtex_key,
                   << Field("title", title), Field("author", authors_str), Field("year", year) >>
                   \o venue_field \o doi_field \o arxiv_fields \o url_field),
             log)

\* a variant that asks the DOI handler and renders the entry itself all the same
SemanticScholarHandler_parse_manual(paper_id, data, net, log) ==
    LET title == Get(data, "title", JStr(<< "Unknown Title" >>))
        authors_data == Get(data, "authors", JList(<<>>))
        named == SelectSeq(authors_data.items,
                           LAMBDA author : JTruthy(Get(author, "name", JNull)))
        author_list == [i \in 1..Len(named) |-> named[i].d.name.s]
        journal_info == Get(data, "journal", JNull)
        external_ids == Get(data, "externalIds", JDict(EmptyDict))
        doi == Get(external_ids, "DOI", JNull)
        doi_url == << "https://", "doi.org/" >> \o Format(doi)
        delegated == DOIHandler_extract_bibtex(doi_url, net)
        log2 == log \o delegated.log
        manual(lg) ==
            IF ~JTruthy(authors_data) THEN RRaise("UnboundLocalError", lg)
            ELSE SemanticScholarHandler_render(paper_id, data, author_list, lg)
    IN  CASE title.j # "str" -> RRaise("AttributeError", log)
          [] title.j = "str" /\ JTruthy(authors_data) /\ authors_data.j # "list" ->
                RRaise("AttributeError", log)
          [] title.j = "str" /\ (~JTruthy(authors_data) \/ authors_data.j = "list")
             /\ JTruthy(journal_info) /\ journal_info.j # "dict" -> RRaise("AttributeError", log)
          [] title.j = "str" /\ (~JTruthy(authors_data) \/ authors_data.j = "list")
             /\ (~JTruthy(journal_info) \/ journal_info.j = "dict")
             /\ external_ids.j # "dict" -> RRaise("AttributeError", log)
          [] OTHER ->
                IF ~JTruthy(doi) THEN manual(log)
                ELSE CASE delegated.t = "str" -> manual(log2)
                       [] delegated.t = "None" -> manual(log2)
                       [] delegated.t = "raise" ->
                            IF IsValueError(delegated.exc) THEN RNone(log2)
                            ELSE RRaise(delegated.exc, log2)

SemanticScholarHandler_parse(paper_id, data, net, log) ==
    LET title == Get(data, "title", JStr(<< "Unknown Title" >>))
        authors_data == Get(data, "authors", JList(<<>>))
        named == SelectSeq(authors_data.items,
                           LAMBDA author : JTruthy(Get(author, "name", JNull)))
        author_list == [i \in 1..Len(named) |-> named[i].d.name.s]
        journal_info == Get(data, "journal", JNull)
        external_ids == Get(data, "externalIds", JDict(EmptyDict))
        doi == Get(external_ids, "DOI", JNull)
        doi_url == << "https://", "doi.org/" >> \o Format(doi)
        delegated == DOIHandler_extract_bibtex(doi_url, net)
        log2 == log \o delegated.log
        manual(lg) ==
            IF ~JTruthy(authors_data) THEN RRaise("UnboundLocalError", lg)
            ELSE SemanticScholarHandler_render(paper_id, data, author_list, lg)
    IN  CASE title.j # "str" -> RRaise("AttributeError", log)
          [] title.j = "str" /\ JTruthy(authors_data) /\ authors_data.j # "list" ->
                RRaise("AttributeError", log)
          [] title.j = "str" /\ (~JTruthy(authors_data) \/ authors_data.j = "list")
             /\ JTruthy(journal_info) /\ journal_info.j # "dict" -> RRaise("AttributeError", log)
          [] title.j = "str" /\ (~JTruthy(authors_data) \/ authors_data.j = "list")
             /\ (~JTruthy(journal_info) \/ journal_info.j = "dict")
             /\ external_ids.j # "dict" -> RRaise("AttributeError", log)
          [] OTHER ->
                IF ~JTruthy(doi) THEN manual(log)
                ELSE CASE delegated.t = "str" -> RStr(delegated.v, log2)
                       [] delegated.t = "None" -> manual(log2)
                       [] delegated.t = "raise" ->
                            IF IsValueError(delegated.exc) THEN RNone(log2)
                            ELSE RRaise(delegated.exc, log2)

SemanticScholarHandler_extract_bibtex(url, net) ==
    IF ~Search(SEMANTIC_SCHOLAR_PATTERN, url) THEN RNone(<<>>)
    ELSE LET paper_id == LastGroup(SEMANTIC_SCHOLAR_PATTERN, url)
             log == << Request("fetch_with_retry", "api.semanticscholar.org", paper_id) >>
             data == net.api
         IN  CASE data.t = "raise" -> RRaise(data.exc, log)
               [] data.t # "raise" /\ ~Truthy(data) -> RNone(log)
               [] data.t = "bytes" /\ Truthy(data) -> RRaise("AttributeError", log)
               [] data.t = "json" /\ Truthy(data) ->
                    IF data.v.j # "dict" THEN RRaise("AttributeError", log)
                    ELSE SemanticScholarHandler_parse(paper_id, data.v, net, log)

(***************************************************************************)
(* OpenReviewHandler._extract_bibtex_from_html and extract_bibtex.         *)
(* net.get is the outcome of the direct requests.get of the forum page: a  *)
(* RequestException, or the page, of which only the value of its           *)
(* data-bibtex attribute matters (attr is empty when the page has none).   *)
(* The result is <<>> for None, << text >> for the decoded attribute.      *)
(***************************************************************************)
OpenReviewHandler_extract_bibtex_from_html(net) ==
    IF net.get.t = "error" THEN <<>>
    ELSE IF net.get.attr = <<>> THEN <<>>
    ELSE << unquote(net.get.attr[1]) >>

OpenReviewHandler_render(paper_id, note, log) ==
    LET content == Get(note, "content", JDict(EmptyDict))
        title0 == Get(content, "title", JStr(<< "Unknown Title" >>))
        title1 == IF title0.j = "list"
                  THEN IF title0.items # <<>> THEN title0.items[1] ELSE JStr(<< "Unknown Title" >>)
                  ELSE title0
        authors0 == Get(content, "authors", JList(<<>>))
        authors == IF authors0.j = "str" THEN << authors0.s >>
                   ELSE [i \in 1..Len(authors0.items) |-> authors0.items[i].s]
        authors_str == IF authors # <<>> THEN JoinAnd(authors) ELSE << "Unknown Author" >>
        year == IF "cdate" \in DOMAIN note.d THEN << "2020" >> ELSE << "Unknown" >>
        venue0 == Get(content, "venue", JStr(<<>>)).s
        invitation == Get(note, "invitation", JStr(<<>>)).s
        venue == IF venue0 # <<>> THEN venue0
                 ELSE IF Len(invitation) >= 2 /\ invitation[2] = "/2021/Conference"
                 THEN << invitation[1] >>
                 ELSE <<>>
        parts == split(authors[1])
        bibtex_key == IF authors # <<>> THEN FamilyNameKey(authors[1]) \o year
                      ELSE << "openreview" >> \o year
        entry_type == IF venue # <<>> THEN "inproceedings" ELSE "article"
    IN  CASE content.j # "dict" -> RRaise("AttributeError", log)
          [] content.j = "dict" /\ title1.j # "str" -> RRaise("AttributeError", log)
          [] content.j = "dict" /\ title1.j = "str" /\ "cdate" \in DOMAIN note.d
             /\ note.d.cdate.j # "num" -> RRaise("TypeError", log)
          [] content.j = "dict" /\ title1.j = "str"
             /\ ("cdate" \in DOMAIN note.d => note.d.cdate.j = "num")
             /\ authors # <<>> /\ ~Contains(authors[1], ",") /\ parts = <<>> -> RNone(log)
          [] OTHER ->
                RStr(Entry(entry_type, bibtex_key,
                           << Field("title", strip(title1.s)),
                              Field("author", authors_str),
                              Field("year", year),
                              IF venue # <<>> THEN Field("booktitle", venue)
                              ELSE Field("journal", << "OpenReview" >>),
                              Field("url", << "https://openreview.net/forum?id=", paper_id >>),
                              Field("note", << "OpenReview ID: ", paper_id >>) >>),
                     log)

OpenReviewHandler_extract_bibtex(url, net) ==
    IF ~Search(OPENREVIEW_PATTERN, url) THEN RNone(<<>>)
    ELSE LET paper_id == LastGroup(OPENREVIEW_PATTERN, url)
             log1 == << Request("requests.get", "openreview.net/forum", paper_id) >>
             bibtex == OpenReviewHandler_extract_bibtex_from_html(net)
             log == Append(log1, Request("fetch_with_retry", "api.openreview.net", paper_id))
             data == net.api
         IN  IF bibtex # <<>> /\ bibtex[1] # <<>> THEN RStr(bibtex[1], log1)
             ELSE CASE data.t = "raise" -> RRaise(data.exc, log)
                    [] data.t # "raise" /\ ~Truthy(data) -> RNone(log)
                    [] data.t = "bytes" /\ Truthy(data) -> RRaise("AttributeError", log)
                    [] data.t = "json" /\ Truthy(data) ->
                         IF data.v.j # "dict" THEN RRaise("AttributeError", log)
                         ELSE IF ~JTruthy(Get(data.v, "notes", JNull)) THEN RNone(log)
                         ELSE IF data.v.d.notes.items[1].j # "dict"
                              THEN RRaise("AttributeError", log)
                         ELSE OpenReviewHandler_render(paper_id, data.v.d.notes.items[1], log)

(***************************************************************************)
(* GitHubHandler.  net.main and net.master are the outcomes of the direct  *)
(* requests.get of CITATION.cff on the two branches: a RequestException,   *)
(* or a response with a status code and a text, the text a sequence of     *)
(* lines.  owner is a text: the owner for GitHub, the project path for     *)
(* GitLab.                                                                 *)
(***************************************************************************)
\* what _parse_citation_cff reads in a line: key and value of `key: value`, whether the
\* line starts an author item, and the family name it carries
CffLine(line) ==
    CASE line = "title: My Tool" ->
            [key |-> "title", value |-> << "My Tool" >>, dash |-> FALSE, family |-> <<>>]
      [] line = "date-released: 2021-03-01" ->
            [key |-> "date-released", value |-> << "2021", "-03-01" >>, dash |-> FALSE,
             family |-> <<>>]
      [] line = "authors:" ->
            [key |-> "authors", value |-> <<>>, dash |-> FALSE, family |-> <<>>]
      [] line = "  - family-names: Doe" ->
            [key |-> "- family-names", value |-> << "Doe" >>, dash |-> TRUE, family |-> <<>>]
      [] line = "  - given-names: Jane" ->
            [key |-> "- given-names", value |-> << "Jane" >>, dash |-> TRUE, family |-> <<>>]
      [] line = "    family-names: Doe" ->
            [key |-> "family-names", value |-> << "Doe" >>, dash |-> FALSE,
             family |-> << "Doe" >>]
      [] OTHER ->
            [key |-> "", value |-> <<>>, dash |-> FALSE, family |-> <<>>]

CffLines ==
    { "title: My Tool", "date-released: 2021-03-01", "authors:", "  - family-names: Doe",
      "  - given-names: Jane", "    family-names: Doe", "<html>" }

\* metadata.get(key): the value of the last line `key: value` with a value, or <<>>
RECURSIVE CffGet(_, _)
CffGet(lines, key) ==
    IF lines = <<>> THEN <<>>
    ELSE LET last == CffLine(lines[Len(lines)])
         IN  IF last.key = key /\ last.value # <<>> THEN last.value
             ELSE CffGet(SubSeq(lines, 1, Len(lines) - 1), key)

\* authors[0]['family'] when the first author item has a family name, else <<>>:
\* the lines after `authors:` up to the second item or the first other key
RECURSIVE CffFirstFamily(_, _, _)
CffFirstFamily(lines, in_authors, items) ==
    IF lines = <<>> THEN <<>>
    ELSE LET l == CffLine(Head(lines))
         IN  IF ~in_authors
             THEN CffFirstFamily(Tail(lines), l.key = "authors", 0)
             ELSE IF l.dash
                  THEN IF items = 1 THEN <<>> ELSE CffFirstFamily(Tail(lines), TRUE, items + 1)
             ELSE IF l.family # <<>>
                  THEN IF items = 1 THEN l.family ELSE CffFirstFamily(Tail(lines), TRUE, items)
             ELSE IF l.key # "" THEN <<>>
             ELSE CffFirstFamily(Tail(lines), TRUE, items)

GitHubHandler_parse_citation_cff(cff_content, owner, repo, original_url, platform) ==
    LET title == IF CffGet(cff_content, "title") # <<>> THEN CffGet(cff_content, "title")
                 ELSE owner \o << "/", repo >>
        released == IF CffGet(cff_content, "date-released") # <<>>
                    THEN CffGet(cff_content, "date-released")
                    ELSE IF CffGet(cff_content, "year") # <<>> THEN CffGet(cff_content, "year")
                    ELSE << "Unknown" >>
        year == FirstFour(released)
        family == CffFirstFamily(cff_content, FALSE, 0)
        first_author == IF family # <<>> THEN family ELSE owner
        bibtex_key == sub_non_alnum(lower(first_author)) \o year
        note == IF platform = "gitlab" THEN "GitLab repository" ELSE "GitHub repository"
    IN  Entry("software", bibtex_key,
              << Field("title", title), Field("year", year), Field("url", original_url),
                 Field("note", << note >>) >>)

\* a variant that asks for the file on both branches before looking at either answer
GitHubHandler_try_citation_cff_both(owner, repo, original_url, platform, net) ==
    LET main == Request("requests.get", "CITATION.cff", "main")
        master == Request("requests.get", "CITATION.cff", "master")
        parsed(r) == << GitHubHandler_parse_citation_cff(r.text, owner, repo, original_url,
                                                         platform) >>
    IN  IF net.main.t = "ok" /\ net.main.status = 200
        THEN [bibtex |-> parsed(net.main), log |-> << main, master >>]
        ELSE IF net.master.t = "ok" /\ net.master.status = 200
        THEN [bibtex |-> parsed(net.master), log |-> << main, master >>]
        ELSE [bibtex |-> <<>>, log |-> << main, master >>]

\* the result is [bibtex: <<>> for None or << text >>, log: the requests made]
GitHubHandler_try_citation_cff(owner, repo, original_url, platform, net) ==
    LET main == Request("requests.get", "CITATION.cff", "main")
        master == Request("requests.get", "CITATION.cff", "master")
        parsed(r) == << GitHubHandler_parse_citation_cff(r.text, owner, repo, original_url,
                                                         platform) >>
    IN  IF net.main.t = "ok" /\ net.main.status = 200
        THEN [bibtex |-> parsed(net.main), log |-> << main >>]
        ELSE IF net.master.t = "ok" /\ net.master.status = 200
        THEN [bibtex |-> parsed(net.master), log |-> << main, master >>]
        ELSE [bibtex |-> <<>>, log |-> << main, master >>]

\* the logins / names of the first five contributors that have one
ContributorNames(contributors, key) ==
    LET first5 == SubSeq(contributors.items, 1, IF Len(contributors.items) < 5
                                                 THEN Len(contributors.items) ELSE 5)
        named == SelectSeq(first5, LAMBDA c : JTruthy(Get(c, key, JNull)))
    IN  [i \in 1..Len(named) |-> named[i].d[key].s]

\* _get_github_metadata_bibtex and _get_gitlab_metadata_bibtex: they differ in the keys
\* they read, in the publisher, and in that GitLab emits no author field
GitHubHandler_metadata_bibtex(platform, owner, repo, original_url, net, log0) ==
    LET log1 == Append(log0, Request("fetch_with_retry", platform, "repository"))
        log2 == Append(log1, Request("fetch_with_retry", platform, "contributors"))
        data == net.api
        contributors == net.contrib
        ownerKey == IF platform = "github" THEN "owner" ELSE "namespace"
        nameKey == IF platform = "github" THEN "login" ELSE "name"
        name == Get(data.v, "name", JStr(<< repo >>))
        description == Get(data.v, "description", JStr(<<>>))
        created_at == Get(data.v, "created_at", JStr(<<>>))
        year == IF JTruthy(created_at) THEN FirstFour(created_at.s) ELSE << "Unknown" >>
        owner_data == Get(data.v, ownerKey, JDict(EmptyDict))
        owner_name == Format(Get(owner_data, nameKey, JStr(<< owner >>)))
        author_list == IF Truthy(contributors)
                       THEN ContributorNames(contributors.v, nameKey) ELSE <<>>
        authors_str == IF author_list # <<>> THEN JoinAnd(author_list) ELSE owner_name
        first_author == IF author_list # <<>> THEN author_list[1] ELSE owner_name
        bibtex_key == sub_non_alnum(lower(first_author)) \o year
        fields == << Field("title", Format(name)) >>
                  \o (IF platform = "github" THEN << Field("author", authors_str) >> ELSE <<>>)
                  \o << Field("year", year) >>
                  \o (IF JTruthy(description) THEN << Field("note", Format(description)) >>
                      ELSE <<>>)
                  \o << Field("url", original_url),
                        Field("publisher", << IF platform = "github" THEN "GitHub"
                                                                       ELSE "GitLab" >>) >>
    IN  CASE data.t = "raise" -> RRaise(data.exc, log1)
          [] data.t # "raise" /\ ~Truthy(data) -> RNone(log1)
          [] data.t = "bytes" /\ Truthy(data) -> RRaise("AttributeError", log1)
          [] data.t = "json" /\ Truthy(data) /\ data.v.j # "dict" ->
                RRaise("AttributeError", log1)
          [] data.t = "json" /\ Truthy(data) /\ data.v.j = "dict" ->
                CASE JTruthy(created_at) /\ created_at.j # "str" -> RRaise("TypeError", log1)
                  [] ~(JTruthy(created_at) /\ created_at.j # "str") /\ owner_data.j # "dict" ->
                        RRaise("AttributeError", log1)
                  [] OTHER ->
                        CASE contributors.t = "raise" ->
                                IF IsValueError(contributors.exc) THEN RNone(log2)
                                ELSE RRaise(contributors.exc, log2)
                          [] contributors.t = "bytes" /\ Truthy(contributors) ->
                                RRaise("AttributeError", log2)
                          [] OTHER -> RStr(Entry("software", bibtex_key, fields), log2)

GitHubHandler_extract_github(url, net) ==
    LET i == MatchStart(GITHUB_PATTERN, url)
        owner == url[i + 1]
        repo == url[i + 3]
        cff == GitHubHandler_try_citation_cff(<< owner >>, repo, url, "github", net)
    IN  IF cff.bibtex # <<>> THEN RStr(cff.bibtex[1], cff.log)
        ELSE GitHubHandler_metadata_bibtex("github", owner, repo, url, net, cff.log)

GitHubHandler_extract_gitlab(url, net) ==
    LET i == MatchStart(GITLAB_PATTERN, url)
        owner == url[i + 1]
        nested == i + 3 <= Len(url) /\ url[i + 2] = "/" /\ url[i + 3] \in Segment
        repo == IF nested THEN url[i + 3] ELSE owner
        project_path == IF nested THEN << owner, "/", repo >> ELSE << owner >>
        cff == IF nested
               THEN GitHubHandler_try_citation_cff(project_path, repo, url, "gitlab", net)
               ELSE [bibtex |-> <<>>, log |-> <<>>]
    IN  IF cff.bibtex # <<>> THEN RStr(cff.bibtex[1], cff.log)
        ELSE GitHubHandler_metadata_bibtex("gitlab", owner, repo, url, net, cff.log)

GitHubHandler_extract_zenodo(url, net) ==
    LET record_id == LastGroup(ZENODO_PATTERN, url)
        log == << Request("fetch_with_retry", "zenodo.org/api/records", record_id) >>
        data == net.api
        metadata == Get(data.v, "metadata", JDict(EmptyDict))
        title == Get(metadata, "title", JStr(<< "Unknown Title" >>))
        creators == Get(metadata, "creators", JList(<<>>))
        named == SelectSeq(creators.items, LAMBDA c : JTruthy(Get(c, "name", JStr(<<>>))))
        author_list == [i \in 1..Len(named) |-> named[i].d.name.s]
        authors_str == IF author_list # <<>> THEN JoinAnd(author_list) ELSE << "Unknown" >>
        publication_date == Get(metadata, "publication_date", JStr(<<>>))
        year == IF JTruthy(publication_date) THEN FirstFour(publication_date.s)
                ELSE << "Unknown" >>
        doi == Get(data.v, "doi", Get(metadata, "doi", JStr(<<>>)))
        resource_type == Get(metadata, "resource_type", JDict(EmptyDict))
        entry_type == Get(resource_type, "type", JStr(<< "misc" >>))
        bibtex_type == IF entry_type.s = << "publication" >> THEN "article"
                       ELSE IF entry_type.s = << "software" >> THEN "software"
                       ELSE "misc"
        first_author0 == IF author_list # <<>> THEN author_list[1] ELSE << "Unknown" >>
        first_author == IF Contains(first_author0, ",") THEN strip(BeforeComma(first_author0))
                        ELSE first_author0
        bibtex_key == sub_non_alnum(lower(first_author)) \o year
        fields == << Field("title", Format(title)), Field("author", authors_str),
                     Field("year", year) >>
                  \o (IF JTruthy(doi) THEN << Field("doi", Format(doi)) >> ELSE <<>>)
                  \o << Field("url", url), Field("publisher", << "Zenodo" >>) >>
    IN  CASE data.t = "raise" -> RRaise(data.exc, log)
          [] data.t # "raise" /\ ~Truthy(data) -> RNone(log)
          [] data.t = "bytes" /\ Truthy(data) -> RRaise("AttributeError", log)
          [] data.t = "json" /\ Truthy(data) /\ data.v.j # "dict" -> RRaise("AttributeError", log)
          [] data.t = "json" /\ Truthy(data) /\ data.v.j = "dict" ->
                CASE metadata.j # "dict" -> RRaise("AttributeError", log)
                  [] metadata.j = "dict" /\ JTruthy(creators) /\ creators.j # "list" ->
                        RRaise("AttributeError", log)
                  [] metadata.j = "dict" /\ ~(JTruthy(creators) /\ creators.j # "list")
                     /\ resource_type.j # "dict" -> RRaise("AttributeError", log)
                  [] OTHER -> RStr(Entry(bibtex_type, bibtex_key, fields), log)

GitHubHandler_extract_bibtex(url, net) ==
    IF Search(ZENODO_PATTERN, url) THEN GitHubHandler_extract_zenodo(url, net)
    ELSE IF Search(GITLAB_PATTERN, url) THEN GitHubHandler_extract_gitlab(url, net)
    ELSE IF Search(GITHUB_PATTERN, url) THEN GitHubHandler_extract_github(url, net)
    ELSE RNone(<<>>)

(***************************************************************************)
(* HTMLMetaHandler.  A page is the sequence of the meta tags that          *)
(* meta_pattern finds in it, each [name, content]; the name is kept as     *)
(* written and lowered by the parser, the content is a text.               *)
(***************************************************************************)
EmptyMetadata ==
    [title |-> <<>>, authors |-> <<>>, year |-> <<>>, journal |-> <<>>, volume |-> <<>>,
     issue |-> <<>>, pages |-> <<>>, doi |-> <<>>, abstract |-> <<>>, publisher |-> <<>>,
     isbn |-> <<>>, issn |-> <<>>]

\* re.search(r'(\d{4})', content): the first four-digit run, <<>> when there is none
YearIn(content) ==
    LET years == SelectSeq(content, LAMBDA c : c \in {"2021", "2019"})
    IN  IF years = <<>> THEN <<>> ELSE << years[1] >>

\* content.replace('https://doi.org/', '').replace('http://doi.org/', '')
CleanDoi(content) == SelectSeq(content, LAMBDA c : c \notin {"https://doi.org/", "http://doi.org/"})

\* one iteration of the loop of _parse_meta_tags; None is the empty text <<>>
HTMLMetaHandler_tag(metadata, tag) ==
    LET name == LowerSym(tag.name)
        content == strip(tag.content)
    IN  IF content = <<>> THEN metadata
        ELSE CASE name \in {"citation_title", "dc.title"} ->
                    [metadata EXCEPT !.title = content]
               [] name \in {"citation_author", "dc.creator", "author"} ->
                    [metadata EXCEPT !.authors = Append(@, content)]
               [] name \in {"citation_publication_date", "citation_date", "dc.date",
                            "article:published_time"} ->
                    IF YearIn(content) # <<>> THEN [metadata EXCEPT !.year = YearIn(content)]
                    ELSE metadata
               [] name \in {"citation_journal_title", "citation_conference_title",
                            "dc.source"} ->
                    [metadata EXCEPT !.journal = content]
               [] name = "citation_volume" -> [metadata EXCEPT !.volume = content]
               [] name = "citation_issue" -> [metadata EXCEPT !.issue = content]
               [] name = "citation_firstpage" -> [metadata EXCEPT !.pages = content]
               [] name = "citation_lastpage" /\ metadata.pages # <<>> ->
                    [metadata EXCEPT !.pages = @ \o << "--" >> \o content]
               [] name \in {"citation_doi", "dc.identifier.doi"} ->
                    [metadata EXCEPT !.doi = CleanDoi(content)]
               [] name \in {"citation_abstract", "dc.description", "og:description"} ->
                    IF metadata.abstract = <<>> THEN [metadata EXCEPT !.abstract = content]
                    ELSE metadata
               [] name \in {"citation_publisher", "dc.publisher"} ->
                    [metadata EXCEPT !.publisher = content]
               [] name = "citation_isbn" -> [metadata EXCEPT !.isbn = content]
               [] name = "citation_issn" -> [metadata EXCEPT !.issn = content]
               [] OTHER -> metadata

\* a parser that reads the first tag of the page only
HTMLMetaHandler_parse_meta_tags_first(html) ==
    IF html = <<>> THEN EmptyMetadata ELSE HTMLMetaHandler_tag(EmptyMetadata, html[1])

RECURSIVE HTMLMetaHandler_parse_meta_tags(_)
HTMLMetaHandler_parse_meta_tags(html) ==
    IF html = <<>> THEN EmptyMetadata
    ELSE HTMLMetaHandler_tag(HTMLMetaHandler_parse_meta_tags(SubSeq(html, 1, Len(html) - 1)),
                             html[Len(html)])

\* the result is <<>> for None or << text >>
HTMLMetaHandler_generate_bibtex(metadata, url) ==
    LET title == metadata.title
        entry_type == IF metadata.journal # <<>> THEN "article" ELSE "misc"
        authors == metadata.authors
        authors_str == IF authors # <<>> THEN JoinAnd(authors) ELSE << "Unknown Author" >>
        \* the key 'year' is always present, so the default of get() is never used
        year == IF metadata.year # <<>> THEN metadata.year ELSE << "None" >>
        bibtex_key == IF authors # <<>> THEN FamilyNameKey(authors[1]) \o year
                      ELSE << "web" >> \o year
        opt(name, value) == IF value # <<>> THEN << Field(name, value) >> ELSE <<>>
        fields == << Field("title", title), Field("author", authors_str), Field("year", year) >>
                  \o opt("journal", metadata.journal) \o opt("volume", metadata.volume)
                  \o opt("number", metadata.issue) \o opt("pages", metadata.pages)
                  \o opt("doi", metadata.doi) \o opt("publisher", metadata.publisher)
                  \o opt("issn", metadata.issn) \o opt("isbn", metadata.isbn)
                  \o << Field("url", url) >>
    IN  IF title = <<>> THEN <<>> ELSE << Entry(entry_type, bibtex_key, fields) >>

\* net.html is what fetch_with_retry gives: bytes are the tags of the page (they survive
\* either decoding), JSON is any parsed body; a body that parsed to a string is searched
\* for tags like a decoded page, any other JSON value makes finditer raise TypeError
HTMLMetaHandler_extract_bibtex(url, net) ==
    LET log == << Request("fetch_with_retry", "page", url) >>
        html_content == net.html
        parsed(html) ==
            LET metadata == HTMLMetaHandler_parse_meta_tags(html)
            IN  IF metadata.title = <<>> THEN RNone(log)
                ELSE RStr(HTMLMetaHandler_generate_bibtex(metadata, url)[1], log)
    IN  CASE html_content.t = "raise" -> RRaise(html_content.exc, log)
          [] html_content.t = "None" -> RNone(log)
          [] html_content.t = "json" ->
                IF ~JTruthy(html_content.v) THEN RNone(log)
                ELSE IF html_content.v.j = "str" THEN parsed(html_content.v.s)
                ELSE RRaise("TypeError", log)
          [] html_content.t = "bytes" ->
                IF html_content.b = <<>> THEN RNone(log) ELSE parsed(html_content.b)

(***************************************************************************)
(* URLHandler.extract_bibtex, dispatched on the handler's class.           *)
(***************************************************************************)
extract_bibtex(h, url, net) ==
    CASE h = "UrlParamHandler" -> UrlParamHandler_extract_bibtex(url, net)
      [] h = "ArxivHandler" -> ArxivHandler_extract_bibtex(url, net)
      [] h = "DOIHandler" -> DOIHandler_extract_bibtex(url, net)
      [] h = "BioRxivHandler" -> BioRxivHandler_extract_bibtex(url, net)
      [] h = "PIIHandler" -> PIIHandler_extract_bibtex(url, net)
      [] h = "CellHandler" -> CellHandler_extract_bibtex(url, net)
      [] h = "OpenReviewHandler" -> OpenReviewHandler_extract_bibtex(url, net)
      [] h = "SemanticScholarHandler" -> SemanticScholarHandler_extract_bibtex(url, net)
      [] h = "GitHubHandler" -> GitHubHandler_extract_bibtex(url, net)
      [] h = "IEEEHandler" -> IEEEHandler_extract_bibtex(url, net)
      [] h = "ACLAnthologyHandler" -> ACLAnthologyHandler_extract_bibtex(url, net)
      [] h = "HTMLMetaHandler" -> HTMLMetaHandler_extract_bibtex(url, net)

(***************************************************************************)
(* What the network can answer.  A dict is built from its items.           *)
(***************************************************************************)
Dict(pairs) == [k \in {p[1] : p \in pairs} |-> (CHOOSE p \in pairs : p[1] = k)[2]]

Without(d, key) == [k \in DOMAIN d \ {key} |-> d[k]]

With(d, key, value) == [k \in DOMAIN d \cup {key} |-> IF k = key THEN value ELSE d[k]]

\* the dict base and every dict that differs from it in one key of offer: the key left
\* out, or given one of the offered values
Variants(base, offer) ==
    {base} \cup { Without(base, k) : k \in DOMAIN offer }
           \cup UNION { { With(base, k, v) : v \in offer[k] } : k \in DOMAIN offer }

Bibtex == << "@", "article{doe2021,", "title={T}", "}" >>
Html == << "<html>" >>

\* the direct requests.get had a response, or raised a RequestException
NoResponse == [t |-> "error"]

NoNet ==
    [doi |-> FNone, api |-> FNone, page |-> FNone, html |-> FNone, contrib |-> FNone,
     get |-> NoResponse,
     main |-> NoResponse, master |-> NoResponse]

\* what fetch_with_retry gives for a text resource
TextResults ==
    { FNone, FRaise("ValueError"), FBytes(<<>>), FBytes(Bibtex), FBytes(<< " " >> \o Bibtex),
      FBytes(Html), FBytes(<< " " >>), FBytes(<< "xFF" >>), FBytes(Bibtex \o << "xFF" >>),
      FJson(JStr(Bibtex)), FJson(JStr(Html)), FJson(JDict(EmptyDict)), FJson(JNum(1)),
      FJson(JList(<< JNum(1) >>)) }

DoiResultsFew == { FNone, FBytes(Bibtex), FBytes(Html), FBytes(<< "xFF" >>) }

CrossrefResults ==
    LET item(doi) == JDict(Dict({<< "DOI", doi >>}))
        message(items) == JDict(Dict({<< "message", JDict(Dict({<< "items", items >>})) >>}))
    IN  { NoResponse,
          [t |-> "json", v |-> message(JList(<< item(JStr(<< "10.1000/xyz" >>)) >>))],
          [t |-> "json", v |-> message(JList(<< item(JNum(1)) >>))],
          [t |-> "json", v |-> message(JList(<< JDict(EmptyDict) >>))],
          [t |-> "json", v |-> message(JList(<< JNum(1) >>))],
          [t |-> "json", v |-> message(JList(<<>>))],
          [t |-> "json", v |-> message(JStr(<< "x" >>))],
          [t |-> "json", v |-> JDict(Dict({<< "message", JNull >>}))],
          [t |-> "json", v |-> JDict(EmptyDict)],
          [t |-> "json", v |-> JList(<<>>)] }

ArxivEntries ==
    [title : {JAbsent, JNull, JStr(<< "A", " ", "Title" >>)},
     authors : {<<>>, << JStr(<< "Jane", " ", "Doe" >>) >>, << JNull >>, << JStr(<< " " >>) >>,
                << JStr(<< "Jane", " ", "O'Neil" >>) >>,
                << JStr(<< "Jane", " ", "Doe" >>), JAbsent, JStr(<< "O'Neil" >>) >>},
     published : {JAbsent, JNull, JStr(<< "2021", "-03-01" >>)},
     category : {JAbsent, JNull, JStr(<< "cs.CL" >>)}]

ArxivDocs ==
    { [xml |-> "malformed"], [xml |-> "feed", entry |-> <<>>] }
    \cup { [xml |-> "feed", entry |-> << e >>] : e \in ArxivEntries }

ArxivResults ==
    { FNone, FRaise("ValueError"), FBytes(<<>>), FJson(JDict(Dict({<< "a", JNum(1) >>}))),
      FJson(JList(<< JNum(1) >>)), FJson(JStr(<< [xml |-> "malformed"] >>)) }
    \cup { FBytes(<< doc >>) : doc \in ArxivDocs }

JaneDoe == JStr(<< "Jane", " ", "Doe" >>)

SemanticScholarPapers ==
    LET paper == [title |-> JStr(<< "A", " ", "Title" >>),
                  authors |-> JList(<< JDict(Dict({<< "name", JaneDoe >>})) >>),
                  year |-> JNum(2021),
                  venue |-> JStr(<< "ACL" >>),
                  publicationTypes |-> JList(<< JStr(<< "Conference" >>) >>)]
        withDoi == With(paper, "externalIds",
                        JDict(Dict({<< "DOI", JStr(<< "10.1000/xyz" >>) >>})))
        offer == [title |-> {JNull},
                  authors |-> {JList(<<>>), JNull,
                               JList(<< JDict(Dict({<< "name",
                                          JStr(<< "Doe", ",", " ", "Jane" >>) >>})),
                                        JDict(EmptyDict) >>)},
                  year |-> {JNull},
                  venue |-> {},
                  publicationTypes |-> {JList(<< JStr(<< "JournalArticle" >>) >>)}]
    IN  Variants(paper, With(offer, "externalIds",
                             {JNull, JDict(Dict({<< "ArXiv", JStr(<< "2103.15348" >>) >>}))}))
        \cup Variants(withDoi, offer)

SemanticScholarResults ==
    { FNone, FRaise("ValueError"), FBytes(Html), FJson(JList(<< JNum(1) >>)),
      FJson(JStr(<< "x" >>)), FJson(JDict(EmptyDict)) }
    \cup { FJson(JDict(d)) : d \in SemanticScholarPapers }

OpenReviewPages ==
    { NoResponse, [t |-> "html", attr |-> <<>>], [t |-> "html", attr |-> << << "%40", "a" >> >>],
      [t |-> "html", attr |-> << << "a" >> >>], [t |-> "html", attr |-> << << "%20" >> >>] }

OpenReviewNotes ==
    LET content == [title |-> JStr(<< "A", " ", "Title" >>), authors |-> JList(<< JaneDoe >>),
                    venue |-> JStr(<< "ICLR" >>)]
        contents == Variants(content,
                             [title |-> {JNull, JDict(Dict({<< "value", JStr(<< "T" >>) >>}))},
                              authors |-> {JList(<<>>), JList(<< JStr(<< " " >>) >>)},
                              venue |-> {}])
        note == [content |-> JDict(content), cdate |-> JNum(1600000000)]
    IN  { With(note, "content", JDict(c)) : c \in contents }
        \cup Variants(note, [content |-> {JNull}, cdate |-> {JNull}])
        \cup { With(Without(With(note, "content", JDict(Without(content, "venue"))), "cdate"),
                    "invitation", JStr(<< "ICLR.cc", "/2021/Conference", "/-/Blind" >>)) }

OpenReviewResults ==
    { FNone, FRaise("ValueError"), FBytes(Html), FJson(JList(<< JNum(1) >>)),
      FJson(JDict(EmptyDict)), FJson(JDict(Dict({<< "notes", JList(<<>>) >>}))),
      FJson(JDict(Dict({<< "notes", JList(<< JNum(1) >>) >>}))) }
    \cup { FJson(JDict(Dict({<< "notes", JList(<< JDict(n) >>) >>}))) : n \in OpenReviewNotes }

CffResponses ==
    { NoResponse, [t |-> "ok", status |-> 404, text |-> << "<html>" >>],
      [t |-> "ok", status |-> 200, text |-> <<>>],
      [t |-> "ok", status |-> 200, text |-> << "<html>" >>],
      [t |-> "ok", status |-> 200,
       text |-> << "title: My Tool", "authors:", "  - family-names: Doe",
                   "date-released: 2021-03-01" >>],
      [t |-> "ok", status |-> 200,
       text |-> << "authors:", "  - given-names: Jane", "    family-names: Doe" >>] }

RepositoryResults ==
    LET repository == [name |-> JStr(<< "repo" >>),
                       description |-> JStr(<< "A", " ", "tool" >>),
                       created_at |-> JStr(<< "2019", "-01-01" >>),
                       owner |-> JDict(Dict({<< "login", JStr(<< "owner" >>) >>})),
                       namespace |-> JDict(Dict({<< "name", JStr(<< "owner" >>) >>}))]
    IN  { FNone, FRaise("ValueError"), FBytes(Html), FJson(JList(<< JNum(1) >>)),
          FJson(JDict(EmptyDict)) }
        \cup { FJson(JDict(d)) :
               d \in Variants(repository,
                              [name |-> {}, description |-> {JNull},
                               created_at |-> {JNull, JNum(1)}, owner |-> {JNull},
                               namespace |-> {JNull}]) }

ContributorResults ==
    { FNone, FRaise("ValueError"), FBytes(Html), FJson(JList(<<>>)),
      FJson(JList(<< JDict(Dict({<< "login", JaneDoe >>, << "name", JaneDoe >>})),
                     JDict(EmptyDict) >>)) }

ZenodoResults ==
    LET metadata == [title |-> JStr(<< "A", " ", "Title" >>),
                     creators |-> JList(<< JDict(Dict({<< "name",
                                              JStr(<< "Doe", ",", " ", "Jane" >>) >>})) >>),
                     publication_date |-> JStr(<< "2021", "-03-01" >>),
                     doi |-> JStr(<< "10.5281/zenodo.123" >>),
                     resource_type |-> JDict(Dict({<< "type", JStr(<< "software" >>) >>}))]
    IN  { FNone, FRaise("ValueError"), FBytes(Html), FJson(JList(<< JNum(1) >>)),
          FJson(JDict(EmptyDict)), FJson(JDict(Dict({<< "metadata", JNull >>}))),
          FJson(JDict(Dict({<< "metadata", JDict(EmptyDict) >>}))) }
        \cup { FJson(JDict(Dict({<< "metadata", JDict(m) >>}))) :
               m \in Variants(metadata,
                              [title |-> {}, creators |-> {JList(<<>>), JStr(<< "x" >>)},
                               publication_date |-> {}, doi |-> {},
                               resource_type |-> {JNull,
                                   JDict(Dict({<< "type", JStr(<< "publication" >>) >>}))}]) }

IEEEPages ==
    { FNone, FRaise("ValueError"), FBytes(Html), FBytes(<< "xFF" >>), FJson(JNum(1)),
      FJson(JStr(Html)) }
    \cup { FBytes(<< "<html>", DoiMarkup[k].sym >>) : k \in 1..Len(DoiMarkup) }
    \cup { FBytes(<< "xFF", DoiMarkup[3].sym, DoiMarkup[2].sym >>) }

MetaTag(name, content) == [name |-> name, content |-> content]

MetaPages ==
    LET title == MetaTag("Citation_Title", << "A", " ", "Title" >>)
        author == MetaTag("citation_author", << "Jane", " ", "Doe" >>)
        author2 == MetaTag("dc.creator", << "Doe", ",", " ", "Jane" >>)
        date == MetaTag("citation_date", << "2021", "/03/01" >>)
        journal == MetaTag("citation_journal_title", << "Nature" >>)
        first == MetaTag("citation_firstpage", << "1" >>)
        last == MetaTag("citation_lastpage", << "9" >>)
        doi == MetaTag("citation_doi", << "https://doi.org/", "10.1000/xyz" >>)
        og == MetaTag("og:title", << "A", " ", "Title" >>)
        blank == MetaTag("citation_title", << " " >>)
    IN  { FNone, FRaise("ValueError"), FBytes(<<>>), FJson(JNum(1)), FJson(JStr(<< og >>)),
          FJson(JStr(<< title, date >>)), FJson(JDict(EmptyDict)),
          FBytes(<< og >>), FBytes(<< blank >>), FBytes(<< author, date >>),
          FBytes(<< title >>), FBytes(<< title, date >>), FBytes(<< title, author >>),
          FBytes(<< title, author2, author, date, journal >>),
          FBytes(<< last, title, first, last, doi >>), FBytes(<< title, blank, author2 >>) }

\* the answers that extract_bibtex of handler h can meet
Inputs(h) ==
    CASE h = "UrlParamHandler" -> { NoNet }
      [] h \in {"DOIHandler", "BioRxivHandler"} -> { [NoNet EXCEPT !.doi = d] : d \in TextResults }
      [] h \in {"PIIHandler", "CellHandler"} ->
            { [NoNet EXCEPT !.get = g, !.doi = d] : g \in CrossrefResults, d \in DoiResultsFew }
      [] h = "ArxivHandler" -> { [NoNet EXCEPT !.api = a] : a \in ArxivResults }
      [] h = "SemanticScholarHandler" ->
            { [NoNet EXCEPT !.api = a, !.doi = d] :
              a \in SemanticScholarResults, d \in DoiResultsFew }
      [] h = "OpenReviewHandler" ->
            { [NoNet EXCEPT !.get = g, !.api = a] : g \in OpenReviewPages, a \in OpenReviewResults }
      [] h = "GitHubHandler" ->
            { [NoNet EXCEPT !.main = m, !.master = r] : m \in CffResponses, r \in CffResponses }
            \cup { [NoNet EXCEPT !.api = a, !.contrib = c] :
                   a \in RepositoryResults \cup ZenodoResults, c \in ContributorResults }
      [] h = "IEEEHandler" ->
            { [NoNet EXCEPT !.page = g, !.doi = d] : g \in IEEEPages, d \in TextResults }
      [] h = "ACLAnthologyHandler" -> { [NoNet EXCEPT !.page = g] : g \in TextResults }
      [] h = "HTMLMetaHandler" -> { [NoNet EXCEPT !.html = g] : g \in MetaPages }

(***************************************************************************)
(* get_session as fetch_with_retry calls it from a single thread: the      *)
(* session is constructed on the first call and reused afterwards.  A      *)
(* session is named by the thread that constructed it.                     *)
(***************************************************************************)
UsesSession(log) == \E i \in 1..Len(log) : log[i].op = "fetch_with_retry"

SessionAfter(session, log) ==
    IF UsesSession(log) /\ session = None THEN "main" ELSE session

MadeAfter(session, constructed, log) ==
    IF UsesSession(log) /\ session = None THEN constructed \cup {"main"} ELSE constructed

(***************************************************************************)
(* HandlerRegistry and Url2Bibtex.  An operation gives its value and the   *)
(* network requests it issued.                                             *)
(***************************************************************************)
MaxHandlers == 3

\* a registration that puts the new handler first
HandlerRegistry_register_front(handlers, handler) == << handler >> \o handlers

HandlerRegistry_register(handlers, handler) == Append(handlers, handler)

\* a removal that takes the last occurrence
HandlerRegistry_unregister_last(handlers, handler) ==
    IF \E i \in 1..Len(handlers) : handlers[i] = handler
    THEN LET i == CHOOSE i \in 1..Len(handlers) :
                      handlers[i] = handler /\ \A k \in (i + 1)..Len(handlers) : handlers[k] # handler
         IN  SubSeq(handlers, 1, i - 1) \o SubSeq(handlers, i + 1, Len(handlers))
    ELSE handlers

\* list.remove: the first occurrence goes, the order of the others is kept
HandlerRegistry_unregister(handlers, handler) ==
    IF \E i \in 1..Len(handlers) : handlers[i] = handler
    THEN LET i == FirstIndex(handlers, handler)
         IN  SubSeq(handlers, 1, i - 1) \o SubSeq(handlers, i + 1, Len(handlers))
    ELSE handlers

RECURSIVE HandlerRegistry_get_handler_last(_, _)
HandlerRegistry_get_handler_last(handlers, url) ==
    IF handlers = <<>> THEN None
    ELSE IF can_handle(handlers[Len(handlers)], url) THEN handlers[Len(handlers)]
    ELSE HandlerRegistry_get_handler_last(SubSeq(handlers, 1, Len(handlers) - 1), url)

RECURSIVE HandlerRegistry_get_handler(_, _)
HandlerRegistry_get_handler(handlers, url) ==
    IF handlers = <<>> THEN None
    ELSE IF can_handle(Head(handlers), url) THEN Head(handlers)
    ELSE HandlerRegistry_get_handler(Tail(handlers), url)

Url2Bibtex_convert_fallback(handlers, url, net) ==
    LET matching == SelectSeq(handlers, LAMBDA h : can_handle(h, url))
        tried(n) == [i \in 1..n |-> extract_bibtex(matching[i], url, net)]
        stop == IF \E n \in 1..Len(matching) : tried(n)[n].t # "None"
                THEN CHOOSE n \in 1..Len(matching) :
                         tried(n)[n].t # "None" /\ \A m \in 1..(n - 1) : tried(m)[m].t = "None"
                ELSE Len(matching)
    IN  IF matching = <<>>
        THEN [invoked |-> <<>>, outcome |-> RRaise("ValueError", <<>>)]
        ELSE [invoked |-> SubSeq(matching, 1, stop),
              outcome |-> [tried(stop)[stop] EXCEPT
                               !.log = Flatten([i \in 1..stop |-> tried(stop)[i].log])]]

Url2Bibtex_convert_raising(handlers, url, net) ==
    LET handler == HandlerRegistry_get_handler(handlers, url)
        extracted == extract_bibtex(handler, url, net)
    IN  IF handler = None
        THEN [invoked |-> <<>>, outcome |-> RRaise("ValueError", <<>>)]
        ELSE [invoked |-> << handler >>,
              outcome |-> IF extracted.t = "None" THEN RRaise("ExtractionFailed", extracted.log)
                          ELSE extracted]

Url2Bibtex_convert_eager(handlers, url, net) ==
    LET handler == HandlerRegistry_get_handler(handlers, url)
        first == extract_bibtex(handlers[1], url, net)
    IN  IF handler = None
        THEN IF handlers = <<>> THEN [invoked |-> <<>>, outcome |-> RRaise("ValueError", <<>>)]
             ELSE [invoked |-> << handlers[1] >>, outcome |-> RRaise("ValueError", first.log)]
        ELSE [invoked |-> << handler >>, outcome |-> extract_bibtex(handler, url, net)]

\* invoked: the handlers whose extract_bibtex ran, in order; outcome: what the caller gets
Url2Bibtex_convert(handlers, url, net) ==
    LET handler == HandlerRegistry_get_handler(handlers, url)
    IN  IF handler = None
        THEN [invoked |-> <<>>, outcome |-> RRaise("ValueError", <<>>)]
        ELSE [invoked |-> << handler >>, outcome |-> extract_bibtex(handler, url, net)]

Url2Bibtex_can_convert_nonempty(handlers, url) ==
    [value |-> handlers # <<>>, log |-> <<>>]

Url2Bibtex_can_convert_probing(handlers, url) ==
    [value |-> HandlerRegistry_get_handler(handlers, url) # None,
     log |-> IF HandlerRegistry_get_handler(handlers, url) # None
             THEN << Request("fetch_with_retry", "page", url) >> ELSE <<>>]

Url2Bibtex_can_convert(handlers, url) ==
    [value |-> HandlerRegistry_get_handler(handlers, url) # None, log |-> <<>>]

(***************************************************************************)
(* The state.  _handlers is HandlerRegistry._handlers; call is the last    *)
(* operation completed on the converter or on a handler, with its          *)
(* arguments, its value and what it did; _session is utils._session and    *)
(* made the sessions constructed so far; tpc and tgot are, per thread, the *)
(* position in get_session and the session it returned last; fetch is the  *)
(* activation of fetch_with_retry.                                         *)
(***************************************************************************)
Threads == {"t1", "t2", "t3"}

NoCall ==
    [op |-> "none", h |-> None, url |-> <<>>, net |-> NoNet, value |-> None, invoked |-> <<>>,
     log |-> <<>>]

\* trace: the requests, the responses and the sleeps of the call, in the order they happen
NoFetch ==
    [pc |-> "idle", max_retries |-> 0, attempt |-> 0, requests |-> 0, slept |-> <<>>,
     result |-> FNone, trace |-> <<>>]

NoConv ==
    [pc |-> "idle", op |-> "none", url |-> <<>>, net |-> NoNet, i |-> 0, handler |-> None,
     agent |-> None, fresh |-> FALSE, value |-> RNone(<<>>), started |-> FALSE]

Init ==
    /\ _handlers = <<>>
    /\ call = NoCall
    /\ _session = None
    /\ made = {}
    /\ tpc = [t \in Threads |-> "idle"]
    /\ tgot = [t \in Threads |-> None]
    /\ fetch = NoFetch
    /\ conv = [t \in Threads |-> NoConv]

\* the handlers, URLs and network answers the registry is exercised with
SomeHandlers ==
    { "UrlParamHandler", "ArxivHandler", "DOIHandler", "SemanticScholarHandler", "GitHubHandler",
      "HTMLMetaHandler" }

SomeUrls ==
    { <<"https://", "arxiv.org/", "abs/", "2103.15348">>,
      <<"https://", "doi.org/", "10.1000/xyz">>,
      <<"doi:", "10.1000/xyz">>,
      <<"https://", "github.com/", "owner", "/", "repo">>,
      <<"https://", "www.", "semanticscholar.org/paper/", "slug", "/", "f235ba0e">>,
      <<"https://", "example.com/", "page">>,
      <<"ftp://", "example.com/", "page">>,
      <<"https://", "example.com/", "page", "?", "bib=">>,
      <<"https://", "example.com/", "page", "?", "id=", "a", "&", "bib=", "a">>,
      <<"https://", "arxiv.org/", "abs/", "2103.15348", "?", "bib=", "@", "a">> }

SomeNets ==
    { NoNet,
      [NoNet EXCEPT !.doi = FBytes(Bibtex), !.main = [t |-> "ok", status |-> 200, text |-> <<>>],
                    !.html = FBytes(<< MetaTag("citation_title", << "A", " ", "Title" >>) >>)],
      [NoNet EXCEPT !.doi = FBytes(<< "xFF" >>), !.api = FJson(JDict(Dict({<< "a", JNum(1) >>})))] }

\* the caller takes the value of the completed operation
return ==
    /\ call.op # "none"
    /\ call' = NoCall
    /\ UNCHANGED <<_handlers, _session, made, tpc, tgot, fetch, conv>>

register(handler) ==
    /\ call.op = "none"
    /\ Len(_handlers) < MaxHandlers
    /\ _handlers' = HandlerRegistry_register(_handlers, handler)
    /\ call' = [NoCall EXCEPT !.op = "register", !.h = handler]
    /\ UNCHANGED <<_session, made, tpc, tgot, fetch, conv>>

unregister(handler) ==
    /\ call.op = "none"
    /\ _handlers' = HandlerRegistry_unregister(_handlers, handler)
    /\ call' = [NoCall EXCEPT !.op = "unregister", !.h = handler]
    /\ UNCHANGED <<_session, made, tpc, tgot, fetch, conv>>

get_handler(url) ==
    /\ call.op = "none"
    /\ call' = [NoCall EXCEPT !.op = "get_handler", !.url = url,
                              !.value = HandlerRegistry_get_handler(_handlers, url)]
    /\ UNCHANGED <<_handlers, _session, made, tpc, tgot, fetch, conv>>

can_convert(url) ==
    LET r == Url2Bibtex_can_convert(_handlers, url)
    IN  /\ call.op = "none"
        /\ call' = [NoCall EXCEPT !.op = "can_convert", !.url = url, !.value = r.value,
                                  !.log = r.log]
        /\ _session' = SessionAfter(_session, r.log)
        /\ made' = MadeAfter(_session, made, r.log)
        /\ UNCHANGED <<_handlers, tpc, tgot, fetch, conv>>

convert(url, net) ==
    /\ call.op = "none"
    /\ \E r \in { Url2Bibtex_convert(_handlers, url, net) } :
           /\ call' = [NoCall EXCEPT !.op = "convert", !.url = url, !.net = net,
                                     !.value = r.outcome, !.invoked = r.invoked,
                                     !.log = r.outcome.log]
           /\ _session' = SessionAfter(_session, r.outcome.log)
           /\ made' = MadeAfter(_session, made, r.outcome.log)
    /\ UNCHANGED <<_handlers, tpc, tgot, fetch, conv>>

NextRegistry ==
    \/ \E handler \in SomeHandlers : register(handler)
    \/ \E handler \in SomeHandlers : unregister(handler)
    \/ \E url \in SomeUrls : get_handler(url)
    \/ \E url \in SomeUrls : can_convert(url)
    \/ \E url \in SomeUrls, net \in SomeNets : convert(url, net)
    \/ return

SpecRegistry == Init /\ [][NextRegistry]_vars

(***************************************************************************)
(* A handler's extract_bibtex called on its own: on a URL it handles,       *)
(* against every answer of the network, or on a sample URL it does not     *)
(* handle.                                                                 *)
(***************************************************************************)
extract(h, url, net) ==
    /\ call.op = "none"
    /\ \E r \in { extract_bibtex(h, url, net) } :
           /\ call' = [NoCall EXCEPT !.op = "extract_bibtex", !.h = h, !.url = url, !.net = net,
                                     !.value = r, !.invoked = << h >>, !.log = r.log]
           /\ _session' = SessionAfter(_session, r.log)
           /\ made' = MadeAfter(_session, made, r.log)
    /\ UNCHANGED <<_handlers, tpc, tgot, fetch, conv>>

NextExtract ==
    \/ /\ call.op = "none"
       /\ \E h \in Handlers, url \in Urls :
              \E net \in (IF can_handle(h, url) THEN Inputs(h) ELSE { NoNet }) :
                  extract(h, url, net)
    \/ return

SpecExtract == Init /\ [][NextExtract]_vars

(***************************************************************************)
(* get_session, run by concurrent threads.  The function takes no lock:    *)
(* the test `_session is None`, the assignment of a new Session and the    *)
(* final read of the global are separate steps of a thread.                *)
(***************************************************************************)
get_session_call(t) ==
    /\ tpc[t] = "idle"
    /\ tpc' = [tpc EXCEPT ![t] = "test"]
    /\ UNCHANGED <<_handlers, call, _session, made, tgot, fetch, conv>>

\* if _session is None:
get_session_test(t) ==
    /\ tpc[t] = "test"
    /\ tpc' = [tpc EXCEPT ![t] = IF _session = None THEN "create" ELSE "return"]
    /\ UNCHANGED <<_handlers, call, _session, made, tgot, fetch, conv>>

\* _session = requests.Session(), then the adapters are mounted on the global
get_session_create(t) ==
    /\ tpc[t] = "create"
    /\ made' = made \cup {t}
    /\ _session' = t
    /\ tpc' = [tpc EXCEPT ![t] = "return"]
    /\ UNCHANGED <<_handlers, call, tgot, fetch, conv>>

\* return _session
get_session_return(t) ==
    /\ tpc[t] = "return"
    /\ tgot' = [tgot EXCEPT ![t] = _session]
    /\ tpc' = [tpc EXCEPT ![t] = "idle"]
    /\ UNCHANGED <<_handlers, call, _session, made, fetch, conv>>

NextSession ==
    \E t \in Threads :
        \/ get_session_call(t)
        \/ get_session_test(t)
        \/ get_session_create(t)
        \/ get_session_return(t)

SpecSession == Init /\ [][NextSession]_vars

(***************************************************************************)
(* fetch_with_retry, one step per iteration of its loop.  An iteration     *)
(* meets one transport outcome; slept records every time.sleep with its    *)
(* reason and its deterministic part.                                      *)
(***************************************************************************)
MaxRetries == 3

RECURSIVE Pow2(_)
Pow2(n) == IF n = 0 THEN 1 ELSE 2 * Pow2(n - 1)

\* Retry-After of a 429 response: no header, or the header's text
RetryAfterHeaders == { <<>>, << "5" >>, << "-1" >>, << "Wed, 21 Oct 2015 07:28:00 GMT" >> }

\* int(text): the number, or ValueError
int(text) ==
    CASE text = "5" -> [t |-> "ok", n |-> 5]
      [] text = "-1" -> [t |-> "ok", n |-> 0 - 1]
      [] OTHER -> [t |-> "raise", exc |-> "ValueError"]

\* a JSON body may be `null`, which response.json() gives back as None
Payloads ==
    { FJson(JDict(Dict({<< "a", JNum(1) >>}))), FJson(JList(<<>>)), FJson(JNull), FBytes(Bibtex) }

\* random.uniform(lo, hi), in tenths of a second: the two ends stand for the interval
uniform(lo, hi) == { lo, hi }

\* time.sleep(base + jitter): base in seconds, jitter in tenths of a second
Sleep(why, base, jitter) == [why |-> why, base |-> base, jitter |-> jitter]

\* an entry of the trace: a request of attempt n, its outcome, or a sleep
Event(ev, why, n, header) == [ev |-> ev, why |-> why, n |-> n, header |-> header]

Finish(result) == [fetch EXCEPT !.pc = "done", !.result = result]

\* a variant that also delays ahead of the first request
Requested_delay_always(delay) ==
    [fetch EXCEPT !.requests = @ + 1,
                  !.slept = Append(@, Sleep("delay", 0, delay)),
                  !.trace = @ \o << Event("sleep", "delay", 0, <<>>),
                                    Event("request", "get", fetch.attempt, <<>>) >>]

\* the part of an iteration before the response: the delay of a retry
\* (time.sleep(random.uniform(0.5, 1.5)) when attempt > 0) and the request
Requested(delay) ==
    [fetch EXCEPT !.requests = @ + 1,
                  !.slept = IF fetch.attempt > 0 THEN Append(@, Sleep("delay", 0, delay)) ELSE @,
                  !.trace = @ \o (IF fetch.attempt > 0 THEN << Event("sleep", "delay", 0, <<>>) >>
                                  ELSE <<>>)
                              \o << Event("request", "get", fetch.attempt, <<>>) >>]

\* the outcome of the request: "2xx", "429", "403" or the exception raised
Responded(f, outcome, header) ==
    [f EXCEPT !.trace = Append(@, Event("response", outcome, f.attempt, header))]

Continue(f, sleep) ==
    [f EXCEPT !.attempt = @ + 1, !.slept = Append(@, sleep),
              !.trace = Append(@, Event("sleep", sleep.why, sleep.base, <<>>))]

\* the delay drawn ahead of the request of this iteration (none is drawn on the first)
Delays == IF fetch.attempt > 0 THEN uniform(5, 15) ELSE { 0 }

LastAttempt == fetch.attempt = fetch.max_retries - 1

InLoop == fetch.pc = "loop" /\ fetch.attempt < fetch.max_retries

\* session = get_session(); the loop is entered
fetch_with_retry(max_retries) ==
    /\ fetch.pc = "idle"
    /\ fetch' = [NoFetch EXCEPT !.pc = "loop", !.max_retries = max_retries]
    /\ _session' = IF _session = None THEN "main" ELSE _session
    /\ made' = IF _session = None THEN made \cup {"main"} ELSE made
    /\ UNCHANGED <<_handlers, call, tpc, tgot, conv>>

\* a 2xx response: parsed JSON when the content type is JSON, the bytes otherwise
fetch_ok(payload) ==
    /\ InLoop
    /\ \E delay \in Delays :
           fetch' = [Responded(Requested(delay), "2xx", <<>>) EXCEPT !.pc = "done", !.result = payload]
    /\ UNCHANGED <<_handlers, call, _session, made, tpc, tgot, conv>>

\* a variant that waits 2 ** attempt whatever the Retry-After header says
fetch_429_ignores_header(header) ==
    /\ InLoop
    /\ \E delay \in Delays :
           fetch' = Continue(Responded(Requested(delay), "429", header),
                             Sleep("429", Pow2(fetch.attempt), 0))
    /\ UNCHANGED <<_handlers, call, _session, made, tpc, tgot, conv>>

\* a variant that treats a 429 on the last attempt as it treats a 403: None at once
fetch_429_returns_last(header) ==
    LET retry_after == IF header = <<>> THEN [t |-> "ok", n |-> Pow2(fetch.attempt)]
                       ELSE int(header[1])
    IN  /\ InLoop
        /\ \E delay \in Delays :
               \E got \in { Responded(Requested(delay), "429", header) } :
                   fetch' = IF retry_after.t = "raise"
                            THEN [got EXCEPT !.pc = "done", !.result = FRaise(retry_after.exc)]
                            ELSE IF retry_after.n < 0
                            THEN [got EXCEPT !.pc = "done", !.result = FRaise("ValueError")]
                            ELSE IF LastAttempt
                            THEN [got EXCEPT !.pc = "done", !.result = FNone]
                            ELSE Continue(got, Sleep("429", retry_after.n, 0))
        /\ UNCHANGED <<_handlers, call, _session, made, tpc, tgot, conv>>

\* status 429: int() of the header and time.sleep are not inside any handler of ValueError
fetch_429(header) ==
    LET retry_after == IF header = <<>> THEN [t |-> "ok", n |-> Pow2(fetch.attempt)]
                       ELSE int(header[1])
    IN  /\ InLoop
        /\ \E delay \in Delays :
               \E got \in { Responded(Requested(delay), "429", header) } :
                   fetch' = IF retry_after.t = "raise"
                            THEN [got EXCEPT !.pc = "done", !.result = FRaise(retry_after.exc)]
                            ELSE IF retry_after.n < 0
                            THEN [got EXCEPT !.pc = "done", !.result = FRaise("ValueError")]
                            ELSE Continue(got, Sleep("429", retry_after.n, 0))
        /\ UNCHANGED <<_handlers, call, _session, made, tpc, tgot, conv>>

\* a variant that backs off after a 403 on the last attempt too
fetch_403_sleeps_last ==
    /\ InLoop
    /\ \E delay \in Delays, jitter \in uniform(10, 30) :
           fetch' = Continue(Responded(Requested(delay), "403", <<>>),
                             Sleep("403", Pow2(fetch.attempt), jitter))
    /\ UNCHANGED <<_handlers, call, _session, made, tpc, tgot, conv>>

\* status 403: 2 ** attempt + random.uniform(1, 3) ahead of a retry, None on the last attempt
fetch_403 ==
    /\ InLoop
    /\ \E delay \in Delays, jitter \in uniform(10, 30) :
           \E got \in { Responded(Requested(delay), "403", <<>>) } :
               fetch' = IF ~LastAttempt
                        THEN Continue(got, Sleep("403", Pow2(fetch.attempt), jitter))
                        ELSE [got EXCEPT !.pc = "done", !.result = FNone]
    /\ UNCHANGED <<_handlers, call, _session, made, tpc, tgot, conv>>

\* a variant that backs off after the last attempt too
fetch_error_sleeps_last(kind) ==
    /\ InLoop
    /\ \E delay \in Delays,
          jitter \in (IF kind \in {"SSLError", "Timeout"} THEN { 0 } ELSE uniform(0, 10)) :
           fetch' = Continue(Responded(Requested(delay), kind, <<>>),
                             Sleep(kind, Pow2(fetch.attempt), jitter))
    /\ UNCHANGED <<_handlers, call, _session, made, tpc, tgot, conv>>

\* SSLError, Timeout, or any other RequestException: an error status raised by
\* raise_for_status, a connection error, a body that response.json() cannot parse
\* The wait is 2 ** attempt, plus random.uniform(0, 1) in the last except clause.
fetch_error(kind) ==
    /\ InLoop
    /\ \E delay \in Delays,
          jitter \in (IF kind \in {"SSLError", "Timeout"} THEN { 0 } ELSE uniform(0, 10)) :
           \E got \in { Responded(Requested(delay), kind, <<>>) } :
               fetch' = IF LastAttempt THEN [got EXCEPT !.pc = "done", !.result = FNone]
                        ELSE Continue(got, Sleep(kind, Pow2(fetch.attempt), jitter))
    /\ UNCHANGED <<_handlers, call, _session, made, tpc, tgot, conv>>

\* the loop ran out of iterations: return None
fetch_exhausted ==
    /\ fetch.pc = "loop"
    /\ fetch.attempt >= fetch.max_retries
    /\ fetch' = Finish(FNone)
    /\ UNCHANGED <<_handlers, call, _session, made, tpc, tgot, conv>>

\* the caller has the result; the next call can start
fetch_return ==
    /\ fetch.pc = "done"
    /\ fetch' = NoFetch
    /\ UNCHANGED <<_handlers, call, _session, made, tpc, tgot, conv>>

ErrorKinds == { "SSLError", "Timeout", "HTTPError", "ConnectionError", "JSONDecodeError" }

NextFetch ==
    \/ \E max_retries \in 0..MaxRetries : fetch_with_retry(max_retries)
    \/ \E payload \in Payloads : fetch_ok(payload)
    \/ \E header \in RetryAfterHeaders : fetch_429(header)
    \/ fetch_403
    \/ \E kind \in ErrorKinds : fetch_error(kind)
    \/ fetch_exhausted
    \/ fetch_return

SpecFetch == Init /\ [][NextFetch]_vars

(***************************************************************************)
(* convert and can_convert, run by concurrent threads on one converter.    *)
(* The registry is filled first; once a thread has called, nothing is      *)
(* registered any more.  A call is a sequence of steps of its thread: the  *)
(* iterations of the loop of get_handler, each reading one entry of        *)
(* _handlers, then extract_bibtex of the handler found.  Steps of          *)
(* different threads interleave.  The handlers assign their fields only in *)
(* __init__, so a handler is a value here.                                 *)
(***************************************************************************)
ConvThreads == {"t1", "t2"}

ConvHandlers == { "UrlParamHandler", "DOIHandler", "HTMLMetaHandler" }

ConvUrls ==
    { <<"https://", "doi.org/", "10.1000/xyz">>,
      <<"https://", "example.com/", "page">>,
      <<"https://", "example.com/", "page", "?", "id=", "a", "&", "bib=", "a">>,
      <<"ftp://", "example.com/", "page">> }

ConvNets ==
    { [NoNet EXCEPT !.doi = FBytes(Bibtex),
                    !.html = FBytes(<< MetaTag("citation_title", << "A", " ", "Title" >>) >>)],
      [NoNet EXCEPT !.doi = FBytes(<< "xFF" >>)] }

\* get_browser_headers: random.choice(user_agents)
user_agents == { "Chrome/Windows", "Chrome/macOS", "Firefox/Windows", "Safari/macOS" }

Bool(b) == [t |-> "bool", b |-> b, log |-> <<>>]

Quiet == \A t \in Threads : conv[t] = NoConv

\* a thread calls convert(url) or can_convert(url); get_handler starts its loop
conv_call(t, op, url, net) ==
    /\ conv[t].pc = "idle"
    /\ call.op = "none"
    /\ conv' = [conv EXCEPT ![t] = [NoConv EXCEPT !.pc = "scan", !.op = op, !.url = url,
                                                  !.net = net, !.i = 1, !.started = TRUE]]
    /\ UNCHANGED <<_handlers, call, _session, made, tpc, tgot, fetch>>

\* a variant that keeps the handler found in a place the running calls share
conv_scan_shared(t) ==
    LET c == conv[t]
        hit == c.i <= Len(_handlers) /\ can_handle(_handlers[c.i], c.url)
        found(d) == [d EXCEPT !.handler = _handlers[c.i],
                              !.pc = IF d.op = "convert" THEN "extract" ELSE "done",
                              !.value = IF d.op = "convert" THEN d.value ELSE Bool(TRUE)]
        missing == [c EXCEPT !.pc = "done",
                             !.value = IF c.op = "convert" THEN RRaise("ValueError", <<>>)
                                       ELSE Bool(FALSE)]
    IN  /\ c.pc = "scan"
        /\ conv' = IF hit
                   THEN [u \in Threads |-> IF conv[u].pc = "scan" THEN found(conv[u]) ELSE conv[u]]
                   ELSE [conv EXCEPT ![t] = IF c.i > Len(_handlers) THEN missing
                                            ELSE [c EXCEPT !.i = c.i + 1]]
        /\ UNCHANGED <<_handlers, call, _session, made, tpc, tgot, fetch>>

\* one iteration of `for handler in self._handlers`, or the end of the loop
conv_scan(t) ==
    LET c == conv[t]
        found == [c EXCEPT !.handler = _handlers[c.i],
                           !.pc = IF c.op = "convert" THEN "extract" ELSE "done",
                           !.value = IF c.op = "convert" THEN c.value ELSE Bool(TRUE)]
        missing == [c EXCEPT !.pc = "done",
                             !.value = IF c.op = "convert" THEN RRaise("ValueError", <<>>)
                                       ELSE Bool(FALSE)]
    IN  /\ c.pc = "scan"
        /\ conv' = [conv EXCEPT ![t] = IF c.i > Len(_handlers) THEN missing
                                       ELSE IF can_handle(_handlers[c.i], c.url) THEN found
                                       ELSE [c EXCEPT !.i = c.i + 1]]
        /\ UNCHANGED <<_handlers, call, _session, made, tpc, tgot, fetch>>

\* a variant whose result depends on what an earlier call left behind: a call that finds
\* the session already there gets no result
conv_extract_stateful(t) ==
    /\ conv[t].pc = "extract"
    /\ \E agent \in user_agents, r \in { extract_bibtex(conv[t].handler, conv[t].url, conv[t].net) } :
           /\ conv' = [conv EXCEPT ![t] = [@ EXCEPT !.pc = "done", !.agent = agent,
                                                    !.value = IF UsesSession(r.log) /\ _session # None
                                                              THEN RNone(r.log) ELSE r,
                                                    !.fresh = UsesSession(r.log) /\ _session = None]]
           /\ _session' = SessionAfter(_session, r.log)
           /\ made' = MadeAfter(_session, made, r.log)
    /\ UNCHANGED <<_handlers, call, tpc, tgot, fetch>>

\* handler.extract_bibtex(url): its requests carry a user agent drawn at random and go
\* through the shared session, which the first call that needs it creates
conv_extract(t) ==
    /\ conv[t].pc = "extract"
    /\ \E agent \in user_agents, r \in { extract_bibtex(conv[t].handler, conv[t].url, conv[t].net) } :
           /\ conv' = [conv EXCEPT ![t] = [@ EXCEPT !.pc = "done", !.agent = agent, !.value = r,
                                                    !.fresh = UsesSession(r.log) /\ _session = None]]
           /\ _session' = SessionAfter(_session, r.log)
           /\ made' = MadeAfter(_session, made, r.log)
    /\ UNCHANGED <<_handlers, call, tpc, tgot, fetch>>

\* the caller has the value; the thread is free for its next call
conv_return(t) ==
    /\ conv[t].pc = "done"
    /\ conv' = [conv EXCEPT ![t] = [NoConv EXCEPT !.started = TRUE]]
    /\ UNCHANGED <<_handlers, call, _session, made, tpc, tgot, fetch>>

NextConcurrent ==
    \/ Quiet /\ \E handler \in ConvHandlers : register(handler)
    \/ return
    \/ \E t \in ConvThreads, url \in ConvUrls, net \in ConvNets : conv_call(t, "convert", url, net)
    \/ \E t \in ConvThreads, url \in ConvUrls : conv_call(t, "can_convert", url, NoNet)
    \/ \E t \in ConvThreads : conv_scan(t)
    \/ \E t \in ConvThreads : conv_extract(t)
    \/ \E t \in ConvThreads : conv_return(t)

SpecConcurrent == Init /\ [][NextConcurrent]_vars

(***************************************************************************)
(* The URLs that the delegating handlers build, with the identifier        *)
(* written character by character: the head of a URL is made of the tokens *)
(* used above, the identifier of single characters, so that the character  *)
(* classes and the repetitions of the patterns are matched as re does.     *)
(***************************************************************************)
Digit == { "0", "1", "2", "3", "4", "5", "6", "7", "8", "9" }

Upper ==
    { "A", "B", "C", "D", "E", "F", "G", "H", "I", "J", "K", "L", "M", "N", "O", "P", "Q", "R",
      "S", "T", "U", "V", "W", "X", "Y", "Z" }

\* the characters the sample identifiers are written with
Chars ==
    Digit \cup Upper
    \cup { "a", "d", "e", "j", "n", "o", "s", "v", "x", "z", ".", "-", "(", ")", "/", "<", ">",
           ";", ":", "#", "?", " " }

\* the longest prefix of text made of characters of class: what `[class]*` takes
RECURSIVE Run(_, _)
Run(text, class) ==
    IF text # <<>> /\ Head(text) \in class THEN << Head(text) >> \o Run(Tail(text), class)
    ELSE <<>>

\* the part of url after the first occurrence of token, <<>> when the token is not there
After(url, token) ==
    IF \E i \in 1..Len(url) : url[i] = token
    THEN SubSeq(url, FirstIndex(url, token) + 1, Len(url))
    ELSE <<>>

\* group 1 of CELL_PATTERN: S\d{4}-\d{4}\(\d{2}\)\d{5}-\d after cell.com/<segment>/fulltext/
CellPiiShape ==
    << {"S"}, Digit, Digit, Digit, Digit, {"-"}, Digit, Digit, Digit, Digit, {"("}, Digit, Digit,
       {")"}, Digit, Digit, Digit, Digit, Digit, {"-"}, Digit >>

CELL_PATTERN_search(url) ==
    LET alt == << {"cell.com/"}, Segment, {"/fulltext/"} >> \o CellPiiShape
    IN  IF \E i \in 1..Len(url) : MatchAt(url, alt, i)
        THEN << SubSeq(After(url, "/fulltext/"), 1, Len(CellPiiShape)) >>
        ELSE <<>>

\* group 1 of PII_PATTERN: [A-Z0-9]+ after sciencedirect.com/science/article/(abs/)?pii/
PII_PATTERN_search(url) ==
    LET rest == After(url, "sciencedirect.com/science/article/")
        tail == IF rest # <<>> /\ rest[1] = "abs/" THEN Tail(rest) ELSE rest
        pii == IF tail # <<>> /\ tail[1] = "pii/" THEN Run(Tail(tail), Digit \cup Upper) ELSE <<>>
    IN  IF pii # <<>> THEN << pii >> ELSE <<>>

\* group 1 of BIORXIV_PATTERN: 10\.1101/[\d.]+ after biorxiv.org/content/
BIORXIV_PATTERN_search(url) ==
    LET rest == After(url, "biorxiv.org/content/")
        head == << "1", "0", ".", "1", "1", "0", "1", "/" >>
        body == Run(SubSeq(rest, Len(head) + 1, Len(rest)), Digit \cup {"."})
    IN  IF Len(rest) > Len(head) /\ SubSeq(rest, 1, Len(head)) = head /\ body # <<>>
        THEN << head \o body >>
        ELSE <<>>

\* group 1 of DOI_PATTERN in its first alternative: 10\.\d+/[^\s?#]+ after doi.org/
DOI_PATTERN_search(url) ==
    LET rest == After(url, "doi.org/")
        registrant == Run(SubSeq(rest, 4, Len(rest)), Digit)
        slash == 4 + Len(registrant)
        suffix == Run(SubSeq(rest, slash + 1, Len(rest)), Chars \ {" ", "?", "#"})
    IN  IF /\ Len(rest) > 3 /\ SubSeq(rest, 1, 3) = << "1", "0", "." >>
           /\ registrant # <<>>
           /\ slash <= Len(rest) /\ rest[slash] = "/"
           /\ suffix # <<>>
        THEN << SubSeq(rest, 1, slash) \o suffix >>
        ELSE <<>>

\* what follows /fulltext/ in the Cell URLs tried: identifiers of the Cell form, with or
\* without a query after them, and texts that are not of that form
CellTails ==
    { << "S" >> \o a \o << "-" >> \o b \o << "(" >> \o c \o << ")" >> \o d \o << "-" >> \o e \o t :
        a \in { << "0", "0", "9", "2" >>, << "1", "3", "6", "7" >> },
        b \in { << "8", "6", "7", "4" >>, << "5", "9", "3", "1" >> },
        c \in { << "2", "5" >>, << "0", "0" >> },
        d \in { << "0", "0", "9", "2", "7" >>, << "0", "0", "9", "2" >> },
        e \in { << "4" >>, << "X" >> },
        t \in { <<>>, << "?", "a" >> } }

CellUrls ==
    { << "https://", "www.", "cell.com/", seg, "/fulltext/" >> \o tail :
        seg \in {"cell", "slug", "prl"}, tail \in CellTails }

\* what follows biorxiv.org/content/ in the bioRxiv URLs tried
BiorxivTails ==
    { << "1", "0", ".", "1", "1", "0", "1", "/" >> \o body \o ver :
        body \in { << "2", "0", "2", "3", ".", "0", "4", ".", "2", "5" >>, << "5", "3", "7" >>,
                   << "." >>, <<>> },
        ver \in { <<>>, << "v", "2" >>, << "v", "2", ".", "a" >>, << "?", "a" >>, << "/" >>,
                  << "v", "1", "0", "#", "a" >> } }

BiorxivUrls ==
    { head \o << "biorxiv.org/content/" >> \o tail :
        head \in { << "https://", "www." >>, << "http://" >>, <<>> }, tail \in BiorxivTails }

\* the DOIs that the Crossref lookup of a PII returns: 10.<digits>/<suffix>, the suffix
\* beginning with a character that is not white space, `?` or `#`
CrossrefDois ==
    { << "1", "0", ".", "1", "0", "1", "6", "/", "j", ".", "x", ".", "2", "5" >>,
      << "1", "0", ".", "1", "0", "1", "6", "/", "S", "0", "-", "4", "(", "2", "5", ")", "7" >>,
      << "1", "0", ".", "1", "0", "0", "2", "/", "(", "S", ")", "<", "2", ":", ":", "A", ">",
         "3", ";", "2" >>,
      << "1", "0", ".", "1", "0", "0", "0", "/", "a", "#", "x" >>,
      << "1", "0", ".", "5", "/", "x" >> }

\* CellHandler.extract_bibtex up to the call of the PII handler: the URL handed over
cell_fake_url(url) ==
    /\ call.op = "none"
    /\ CELL_PATTERN_search(url) # <<>>
    /\ \E pii \in { CellHandler_normalize_pii(CELL_PATTERN_search(url)[1]) } :
           call' = [NoCall EXCEPT
                       !.op = "delegate", !.h = "CellHandler", !.url = url,
                       !.invoked = << "PIIHandler" >>,
                       !.value = << "https://", "www.", "sciencedirect.com/science/article/",
                                    "pii/" >> \o pii]
    /\ UNCHANGED <<_handlers, _session, made, tpc, tgot, fetch, conv>>

\* BioRxivHandler.extract_bibtex up to the call of the DOI handler
biorxiv_doi_url(url) ==
    /\ call.op = "none"
    /\ BIORXIV_PATTERN_search(url) # <<>>
    /\ call' = [NoCall EXCEPT !.op = "delegate", !.h = "BioRxivHandler", !.url = url,
                              !.invoked = << "DOIHandler" >>,
                              !.value = << "https://", "doi.org/" >>
                                        \o BIORXIV_PATTERN_search(url)[1]]
    /\ UNCHANGED <<_handlers, _session, made, tpc, tgot, fetch, conv>>

\* PIIHandler.extract_bibtex from the DOI that _get_doi_from_pii found to the call of the
\* DOI handler
pii_doi_url(url, doi) ==
    /\ call.op = "none"
    /\ PII_PATTERN_search(url) # <<>>
    /\ call' = [NoCall EXCEPT !.op = "delegate", !.h = "PIIHandler", !.url = url,
                              !.invoked = << "DOIHandler" >>,
                              !.value = << "https://", "doi.org/" >> \o doi]
    /\ UNCHANGED <<_handlers, _session, made, tpc, tgot, fetch, conv>>

NextDelegate ==
    \/ \E url \in CellUrls : cell_fake_url(url)
    \/ \E url \in BiorxivUrls : biorxiv_doi_url(url)
    \/ \E pii \in PIIs, doi \in CrossrefDois :
           pii_doi_url(<< "https://", "www.", "sciencedirect.com/science/article/", "pii/" >>
                       \o Spell(pii), doi)
    \/ return

SpecDelegate == Init /\ [][NextDelegate]_vars

(***************************************************************************)
(* The DOI form of a Zenodo record, written character by character: the    *)
(* URLs that the second alternative of ZENODO_PATTERN is tried on.         *)
(***************************************************************************)
ZenodoDoiHead ==
    << "1", "0", ".", "5", "2", "8", "1", "/", "z", "e", "n", "o", "d", "o", "." >>

\* group 2 of ZENODO_PATTERN: (\d+) after doi.org/10.5281/zenodo.
ZENODO_PATTERN_search(url) ==
    LET rest == After(url, "doi.org/")
        id == Run(SubSeq(rest, Len(ZenodoDoiHead) + 1, Len(rest)), Digit)
    IN  IF /\ Len(rest) > Len(ZenodoDoiHead)
           /\ SubSeq(rest, 1, Len(ZenodoDoiHead)) = ZenodoDoiHead
           /\ id # <<>>
        THEN << id >>
        ELSE <<>>

ZenodoDoiUrls ==
    { head \o << "doi.org/" >> \o ZenodoDoiHead \o id \o tail :
        head \in { << "https://" >>, << "http://", "dx." >>, <<>> },
        id \in { << "1", "2", "3" >>, << "5", "2", "8", "8", "5", "2", "6" >>, << "7" >>, <<>> },
        tail \in { <<>>, << "?", "a" >>, << "#", "a" >>, << "/" >>, << "v", "2" >> } }

\* can_handle of the handlers on a URL of ZenodoDoiUrls: such a URL has no bib parameter and
\* none of the hosts and paths of the other patterns
can_handle_doi_form(h, url) ==
    CASE h = "DOIHandler" -> DOI_PATTERN_search(url) # <<>>
      [] h = "GitHubHandler" -> ZENODO_PATTERN_search(url) # <<>>
      [] h = "HTMLMetaHandler" -> startswith(url, {"http://", "https://"})
      [] OTHER -> FALSE

(***************************************************************************)
(* default_converter: the module creates one Url2Bibtex and registers the  *)
(* twelve built-in handlers on it, in this order.                          *)
(***************************************************************************)
DefaultHandlers_fallback_first ==
    << "HTMLMetaHandler", "ArxivHandler", "DOIHandler", "BioRxivHandler", "PIIHandler",
       "CellHandler", "OpenReviewHandler", "SemanticScholarHandler", "GitHubHandler",
       "IEEEHandler", "ACLAnthologyHandler", "UrlParamHandler" >>

DefaultHandlers_github_first ==
    << "UrlParamHandler", "ArxivHandler", "GitHubHandler", "DOIHandler", "BioRxivHandler",
       "PIIHandler", "CellHandler", "OpenReviewHandler", "SemanticScholarHandler",
       "IEEEHandler", "ACLAnthologyHandler", "HTMLMetaHandler" >>

DefaultHandlers ==
    << "UrlParamHandler", "ArxivHandler", "DOIHandler", "BioRxivHandler", "PIIHandler",
       "CellHandler", "OpenReviewHandler", "SemanticScholarHandler", "GitHubHandler",
       "IEEEHandler", "ACLAnthologyHandler", "HTMLMetaHandler" >>

\* the import of the module: Url2Bibtex() and the twelve register_handler calls
default_converter ==
    /\ call.op = "none"
    /\ _handlers = <<>>
    /\ _handlers' = DefaultHandlers
    /\ call' = [NoCall EXCEPT !.op = "register", !.h = DefaultHandlers[Len(DefaultHandlers)]]
    /\ UNCHANGED <<_session, made, tpc, tgot, fetch, conv>>

\* get_handler of the default converter on the DOI form of a Zenodo record
get_handler_doi_form(url) ==
    /\ call.op = "none"
    /\ \E matching \in { SelectSeq(_handlers, LAMBDA h : can_handle_doi_form(h, url)) } :
           call' = [NoCall EXCEPT !.op = "get_handler_doi_form", !.url = url,
                                  !.value = IF matching = <<>> THEN None ELSE Head(matching)]
    /\ UNCHANGED <<_handlers, _session, made, tpc, tgot, fetch, conv>>

NextDefault ==
    \/ default_converter
    \/ _handlers = DefaultHandlers /\ \E url \in ZenodoDoiUrls : get_handler_doi_form(url)
    \/ _handlers = DefaultHandlers /\ \E url \in Urls : get_handler(url)
    \/ _handlers = DefaultHandlers /\ \E url \in Urls : can_convert(url)
    \/ /\ _handlers = DefaultHandlers
       /\ call.op = "none"
       /\ \E url \in Urls :
              \E net \in (IF HandlerRegistry_get_handler(_handlers, url) = None THEN { NoNet }
                          ELSE Inputs(HandlerRegistry_get_handler(_handlers, url))) :
                  convert(url, net)
    \/ return

SpecDefault == Init /\ [][NextDefault]_vars

(***************************************************************************)
(* Properties of the registry and of the converter (SpecRegistry).         *)
(***************************************************************************)
Matching(url) == { i \in 1..Len(_handlers) : can_handle(_handlers[i], url) }

First(url) == CHOOSE i \in Matching(url) : \A k \in Matching(url) : i <= k

\* C1: whatever registers and unregisters came before, get_handler(url) returns the
\* registered handler at the lowest position whose can_handle(url) is true, also when
\* several registered handlers match, and returns None exactly when none matches.
C1_FirstMatch ==
    call.op = "get_handler" =>
        /\ Matching(call.url) = {} <=> call.value = None
        /\ Matching(call.url) # {} => call.value = _handlers[First(call.url)]

\* two different registered handlers match the URL and the first was returned
C1_Witness ==
    /\ call.op = "get_handler"
    /\ Len(_handlers) = 2
    /\ _handlers[1] # _handlers[2]
    /\ Matching(call.url) = {1, 2}
    /\ call.value = _handlers[1]

C3_Unsupported ==
    (call.op = "convert" /\ Matching(call.url) = {}) =>
        /\ call.value.t = "raise"
        /\ call.value.exc = "ValueError"
        /\ call.invoked = <<>>
        /\ call.log = <<>>

\* the registry is not empty, none of its handlers recognizes the URL, convert raised
C3_Witness ==
    /\ call.op = "convert"
    /\ _handlers # <<>>
    /\ Matching(call.url) = {}
    /\ call.value.t = "raise"

\* C4: can_convert(url) is true if and only if some registered handler's can_handle(url)
\* is true, which is if and only if get_handler(url) returns a handler.
C4_CanConvert ==
    call.op = "can_convert" =>
        /\ call.value <=> (\E i \in 1..Len(_handlers) : can_handle(_handlers[i], call.url))
        /\ call.value <=> (HandlerRegistry_get_handler(_handlers, call.url) # None)

\* can_convert is false on a registry that is not empty
C4_Witness ==
    /\ call.op = "can_convert"
    /\ _handlers # <<>>
    /\ call.value = FALSE

\* C5: in one convert call extract_bibtex runs on at most one handler, the first match;
\* when it returns no result no later matching handler is tried, so what the call returns
\* and requests is exactly what that one handler returns and requests.
C5_OneHandler ==
    call.op = "convert" =>
        /\ Len(call.invoked) <= 1
        /\ Matching(call.url) # {} =>
              /\ call.invoked = << _handlers[First(call.url)] >>
              /\ call.value = extract_bibtex(_handlers[First(call.url)], call.url, call.net)

\* the first match returned no result although a later matching handler has one
C5_Witness ==
    /\ call.op = "convert"
    /\ Len(_handlers) = 2
    /\ Matching(call.url) = {1, 2}
    /\ _handlers[1] # _handlers[2]
    /\ call.value.t = "None"
    /\ extract_bibtex(_handlers[2], call.url, call.net).t = "str"

\* C9: can_handle is a function of the handler and the URL alone, so a can_convert or
\* get_handler step makes no network request, constructs no session and leaves
\* utils._session as it was, for every URL and every registry.
C9_NoNetwork ==
    [][call'.op \in {"can_convert", "get_handler"} =>
          /\ call'.log = <<>>
          /\ _session' = _session
          /\ made' = made
          /\ _handlers' = _handlers]_vars

\* can_convert answered true with a fetching handler registered and still no session
C9_Witness ==
    /\ call.op = "can_convert"
    /\ call.value = TRUE
    /\ \E i \in 1..Len(_handlers) : _handlers[i] = "HTMLMetaHandler"
    /\ _session = None
    /\ made = {}

(***************************************************************************)
(* Properties of fetch_with_retry (SpecFetch).                             *)
(***************************************************************************)
\* C6: for every sequence of per-attempt outcomes, a 429 with any Retry-After among them,
\* fetch_with_retry ends by returning JSON, bytes or None; no exception reaches its caller.
C6_NeverRaises == fetch.pc = "done" => fetch.result.t \in {"json", "bytes", "None"}

(***************************************************************************)
(* Properties of the handlers (SpecExtract).                               *)
(***************************************************************************)
\* every fetch_with_retry of the call returned; none raised
FetchesReturn(net) ==
    /\ net.doi.t # "raise"
    /\ net.api.t # "raise"
    /\ net.page.t # "raise"
    /\ net.html.t # "raise"
    /\ net.contrib.t # "raise"

\* C7: for every built-in handler and every outcome of its fetches (a failure, bytes that
\* are not UTF-8, JSON where bytes were expected, a payload without title, authors or
\* year), extract_bibtex returns a string or None and raises nothing.
C7_NeverRaises ==
    (call.op = "extract_bibtex" /\ FetchesReturn(call.net)) => call.value.t \in {"str", "None"}

\* C10: for every built-in handler and every payload, a result of extract_bibtex that is
\* not a failure is text beginning with '@'.
C10_BeginsWithAt ==
    (call.op = "extract_bibtex" /\ call.value.t = "str") =>
        (call.value.v # <<>> /\ call.value.v[1] = "@")

(***************************************************************************)
(* Properties of get_session (SpecSession).                                *)
(***************************************************************************)
\* C8: under any interleaving of get_session calls by concurrent threads at most one
\* Session is ever constructed and every caller receives that same instance.
C8_OneSession ==
    /\ Cardinality(made) <= 1
    /\ \A t, u \in Threads : (tgot[t] # None /\ tgot[u] # None) => tgot[t] = tgot[u]

(***************************************************************************)
(* Properties of concurrent calls (SpecConcurrent).                        *)
(***************************************************************************)
\* what the call of a thread returns when it runs alone on the registry
Alone(c) ==
    IF c.op = "convert" THEN Url2Bibtex_convert(_handlers, c.url, c.net).outcome
    ELSE Bool(Url2Bibtex_can_convert(_handlers, c.url).value)

CarriesBib(url) ==
    /\ ~urlparse_raises(url)
    /\ \E i \in 1..(Len(url) - 1) :
           i > FirstIndex(url, "?") /\ url[i] = "bib=" /\ url[i + 1] # "&"

\* the handler the last call resolved its URL to
Resolved ==
    IF call.op = "get_handler" THEN call.value
    ELSE IF call.invoked = <<>> THEN None ELSE call.invoked[1]

Responses == SelectSeq(fetch.trace, LAMBDA e : e.ev = "response")

\* the sleeps of the call other than the delays ahead of a request
Backoffs == SelectSeq(fetch.slept, LAMBDA sl : sl.why # "delay")

\* a response with a 2xx status: one that was returned, or one whose JSON body did not parse
TwoXX(e) == e.ev = "response" /\ e.why \in {"2xx", "JSONDecodeError"}

\* the caller receives None: `return None`, or the value of a JSON body `null`
ReturnsNone ==
    \/ fetch.result.t = "None"
    \/ fetch.result.t = "json" /\ fetch.result.v.j = "null"

\* C14: a finished call has issued at most max_retries requests, none of them after the
\* first 2xx response, and it returns None exactly when no request produced a 2xx response.
C14_AsStated ==
    fetch.pc = "done" =>
        /\ fetch.requests <= fetch.max_retries
        /\ \A i, k \in 1..Len(fetch.trace) :
               (TwoXX(fetch.trace[i]) /\ i < k) => fetch.trace[k].ev # "request"
        /\ ReturnsNone <=> ~(\E i \in 1..Len(fetch.trace) : TwoXX(fetch.trace[i]))

\* the attempts that ended in an exception
Failures == SelectSeq(Responses, LAMBDA e : e.why \in ErrorKinds)

\* C15: in a finished call whose attempts ended in transient errors or in success, the i-th
\* backoff sleep (from 0) has base 2^i seconds; k failures followed by a success give the
\* payload after exactly k backoff sleeps (2 when max_retries = 3 and the third attempt
\* succeeds); when every attempt fails, None is returned after max_retries - 1 backoff
\* sleeps, none of them after the last failure.
C15_Backoff ==
    ( /\ fetch.pc = "done"
      /\ \A i \in 1..Len(Responses) : Responses[i].why \in ErrorKinds \cup {"2xx"} )
    => /\ \A i \in 1..Len(Backoffs) : Backoffs[i].base = Pow2(i - 1)
       /\ (\E i \in 1..Len(Responses) : Responses[i].why = "2xx") =>
              /\ Len(Failures) < fetch.max_retries
              /\ Len(Backoffs) = Len(Failures)
              /\ fetch.result \in Payloads
       /\ (fetch.max_retries > 0 /\ \A i \in 1..Len(Responses) : Responses[i].why # "2xx") =>
              /\ Len(Failures) = fetch.max_retries
              /\ Len(Backoffs) = fetch.max_retries - 1
              /\ fetch.trace[Len(fetch.trace)].ev = "response"
              /\ fetch.result = FNone

\* two transient failures, then success on the third of three attempts
C15_Witness ==
    /\ fetch.pc = "done"
    /\ fetch.max_retries = 3
    /\ Len(Responses) = 3
    /\ Responses[1].why = "Timeout" /\ Responses[2].why = "ConnectionError"
    /\ Responses[3].why = "2xx"
    /\ Len(Backoffs) = 2
    /\ fetch.result = FBytes(Bibtex)

\* the seconds a 429 response asks for: the Retry-After header, 2 ** attempt without one
\* (-1 stands for a header that is not a number of seconds)
Asked(e) ==
    IF e.header = <<>> THEN Pow2(e.n)
    ELSE IF int(e.header[1]).t = "ok" THEN int(e.header[1]).n ELSE 0 - 1

\* C16: whenever a request follows a 429 response of attempt a, the fetcher has slept, right
\* after that response, the seconds of its Retry-After header, or 2^a seconds when it had
\* none; so a transport that always answers 429 with `Retry-After: 5` makes it sleep 5
\* seconds ahead of each retry.
C16_RetryAfter ==
    \A i, k \in 1..Len(fetch.trace) :
        ( /\ fetch.trace[i].ev = "response" /\ fetch.trace[i].why = "429"
          /\ i < k /\ fetch.trace[k].ev = "request" )
        => /\ fetch.trace[i + 1].ev = "sleep"
           /\ fetch.trace[i + 1].why = "429"
           /\ fetch.trace[i + 1].n = Asked(fetch.trace[i])

\* three attempts were all answered 429 with Retry-After: 5, and each retry came after a
\* sleep of 5 seconds
C16_Witness ==
    /\ fetch.pc = "done"
    /\ fetch.max_retries = 3
    /\ fetch.requests = 3
    /\ \A i \in 1..Len(Responses) : Responses[i].why = "429" /\ Responses[i].header = << "5" >>
    /\ \A i \in 1..Len(Backoffs) : Backoffs[i] = Sleep("429", 5, 0)

\* C17: a 403 response of an attempt a before the last is followed at once by a sleep of 2^a
\* seconds plus a jitter of 1 to 3 seconds, and then by another request; a 403 response of
\* the last attempt ends the call with None and no sleep.  A finished call that got 403 on
\* every attempt has issued max_retries requests and slept max_retries - 1 backoffs.
C17_Forbidden ==
    /\ \A i \in 1..Len(fetch.trace) :
           (fetch.trace[i].ev = "response" /\ fetch.trace[i].why = "403") =>
               IF fetch.trace[i].n < fetch.max_retries - 1
               THEN /\ fetch.trace[i + 1] = Event("sleep", "403", Pow2(fetch.trace[i].n), <<>>)
                    /\ fetch.pc = "done" =>
                           \E k \in (i + 2)..Len(fetch.trace) : fetch.trace[k].ev = "request"
               ELSE /\ i = Len(fetch.trace)
                    /\ fetch.pc = "done"
                    /\ fetch.result = FNone
    /\ \A i \in 1..Len(fetch.slept) :
           fetch.slept[i].why = "403" => fetch.slept[i].jitter \in 10..30
    /\ ( /\ fetch.pc = "done" /\ fetch.max_retries > 0
         /\ \A i \in 1..Len(Responses) : Responses[i].why = "403" )
       => /\ fetch.requests = fetch.max_retries
          /\ Len(Backoffs) = fetch.max_retries - 1

\* three attempts, each answered 403: three requests, two backoff sleeps, None
C17_Witness ==
    /\ fetch.pc = "done"
    /\ fetch.max_retries = 3
    /\ Len(Responses) = 3
    /\ \A i \in 1..3 : Responses[i].why = "403"
    /\ fetch.requests = 3
    /\ Len(Backoffs) = 2
    /\ fetch.result = FNone

IsDelay(e) == e.ev = "sleep" /\ e.why = "delay"

\* C18: nothing is slept ahead of the first request of a call, and every later request has
\* exactly one delay of 0.5 to 1.5 seconds right ahead of it, after whatever backoff was
\* slept.
C18_Delays ==
    /\ \A i \in 1..Len(fetch.trace) :
           fetch.trace[i].ev = "request" =>
               IF fetch.trace[i].n = 0 THEN i = 1
               ELSE /\ i > 1 /\ IsDelay(fetch.trace[i - 1])
                    /\ i > 2 => ~IsDelay(fetch.trace[i - 2])
    /\ \A i \in 1..Len(fetch.trace) :
           IsDelay(fetch.trace[i]) => i < Len(fetch.trace) /\ fetch.trace[i + 1].ev = "request"
    /\ \A i \in 1..Len(fetch.slept) :
           fetch.slept[i].why = "delay" => fetch.slept[i].jitter \in 5..15

\* a call of three requests: the second and the third each came right after a delay
C18_Witness ==
    /\ fetch.pc = "done"
    /\ fetch.requests = 3
    /\ Len(SelectSeq(fetch.trace, IsDelay)) = 2
    /\ Len(Backoffs) = 2
    /\ fetch.trace[1].ev = "request"

(***************************************************************************)
(* Properties of GitHubHandler and SemanticScholarHandler (SpecExtract).   *)
(***************************************************************************)
\* the last call was extract_bibtex of GitHubHandler on a URL that goes to _extract_github
OnGitHub ==
    /\ call.op = "extract_bibtex" /\ call.h = "GitHubHandler"
    /\ Search(GITHUB_PATTERN, call.url)
    /\ ~Search(ZENODO_PATTERN, call.url) /\ ~Search(GITLAB_PATTERN, call.url)

\* the position of the request for `id` in the log of the call, 0 when it was not made
At(id) ==
    IF \E i \in 1..Len(call.log) : call.log[i].id = id
    THEN CHOOSE i \in 1..Len(call.log) : call.log[i].id = id
    ELSE 0

Status200(r) == r.t = "ok" /\ r.status = 200

\* C19: one GitHub extraction asks, in this order and each at most once, for CITATION.cff on
\* main, CITATION.cff on master, the repository API and the contributors API; master only
\* when main did not answer 200, the repository API only when neither branch gave a
\* citation file, the contributors API only after the repository API gave data.
C19_Order ==
    OnGitHub =>
        /\ Len(call.log) >= 1 /\ At("main") = 1
        /\ \A i, k \in 1..Len(call.log) : call.log[i].id = call.log[k].id => i = k
        /\ \A i \in 1..Len(call.log) :
               call.log[i].id \in {"main", "master", "repository", "contributors"}
        /\ At("master") # 0 => At("master") = 2 /\ ~Status200(call.net.main)
        /\ At("repository") # 0 =>
               /\ At("repository") = Len(SelectSeq(call.log, LAMBDA q : q.target = "CITATION.cff")) + 1
               /\ ~Status200(call.net.main)
               /\ At("master") = 2 /\ ~Status200(call.net.master)
        /\ At("contributors") # 0 =>
               /\ At("repository") # 0 /\ At("contributors") = At("repository") + 1
               /\ Truthy(call.net.api)

\* neither branch had the file, the repository API and the contributors API answered:
\* four requests, and an entry rendered from the API data
C19_Witness ==
    /\ OnGitHub
    /\ Len(call.log) = 4
    /\ At("main") = 1 /\ At("master") = 2 /\ At("repository") = 3 /\ At("contributors") = 4
    /\ Truthy(call.net.contrib)
    /\ call.value.t = "str"

\* the last call was extract_bibtex of SemanticScholarHandler and it got the paper as a dict
OnSemanticScholar ==
    /\ call.op = "extract_bibtex" /\ call.h = "SemanticScholarHandler"
    /\ Search(SEMANTIC_SCHOLAR_PATTERN, call.url)
    /\ call.net.api.t = "json" /\ call.net.api.v.j = "dict"

\* externalIds.DOI of the payload, null when the payload has none
PayloadDoi ==
    LET external_ids == Get(call.net.api.v, "externalIds", JDict(EmptyDict))
    IN  IF external_ids.j = "dict" THEN Get(external_ids, "DOI", JNull) ELSE JNull

\* the DOI handler was asked: its request to doi.org is among the requests of the call
DoiInvoked == \E i \in 1..Len(call.log) : call.log[i].target = "doi.org"

\* what DOIHandler.extract_bibtex gives for the DOI of the payload
DoiResult == DOIHandler_extract_bibtex(<< "https://", "doi.org/" >> \o Format(PayloadDoi), call.net)

IsHtml(page) == page.t = "bytes" \/ (page.t = "json" /\ page.v.j = "str")

Tags(page) == IF page.t = "bytes" THEN page.b ELSE page.v.s

\* the tags named citation_title or dc.title, in any letter case, whose content is not blank
TitleTags(page) ==
    SelectSeq(Tags(page), LAMBDA tag : /\ LowerSym(tag.name) \in {"citation_title", "dc.title"}
                                       /\ strip(tag.content) # <<>>)

OnFallback == call.op \in {"convert", "extract_bibtex"} /\ call.invoked = << "HTMLMetaHandler" >>

ManuallyRendered ==
    /\ call.op = "extract_bibtex"
    /\ call.value.t = "str"
    /\ \/ call.h \in {"ArxivHandler", "GitHubHandler", "HTMLMetaHandler"}
       \/ call.h = "OpenReviewHandler" /\ Len(call.log) = 2
       \/ OnSemanticScholar /\ (~JTruthy(PayloadDoi) \/ DoiResult.t = "None")

\* the citation key of an entry: what stands between `@type{` and the first comma
KeyOf(entry) == SubSeq(entry, 4, FirstIndex(entry, ",") - 1)

\* the value of the entry's year field
YearOf(entry) == entry[FirstIndex(entry, "year") + 3]

\* the symbols of keys that are written with the characters a-z and 0-9 only
LowerAlnum ==
    { "doe", "jane", "oneil", "owner", "repo", "arxiv", "web", "openreview", "semanticscholar",
      "unknown", "2019", "2020", "2021" }

\* C22 as the specification states it: in every entry a handler renders itself the key is
\* the lower-cased family name of the first author, or the source prefix, followed by the
\* year, and is written with the characters a-z and 0-9 only.
C22_AsStated ==
    ManuallyRendered =>
        LET key == KeyOf(call.value.v)
        IN  /\ key # <<>>
            /\ key[Len(key)] = YearOf(call.value.v)
            /\ \A i \in 1..Len(key) : key[i] \in LowerAlnum

\* the last call was extract_bibtex of HTMLMetaHandler and it rendered an entry
OnRenderedPage ==
    /\ call.op = "extract_bibtex" /\ call.h = "HTMLMetaHandler"
    /\ IsHtml(call.net.html)
    /\ call.value.t = "str"

\* the authors the page lists: the contents, stripped, of its author tags that are not blank
AuthorsOf(page) ==
    LET tags == SelectSeq(Tags(page),
                          LAMBDA tag : /\ LowerSym(tag.name) \in {"citation_author", "dc.creator",
                                                                    "author"}
                                       /\ strip(tag.content) # <<>>)
    IN  [i \in 1..Len(tags) |-> strip(tags[i].content)]

\* the family name of a name: the text before its first comma when it has one, else the
\* last of its words
FamilyName(name) ==
    IF \E i \in 1..Len(name) : name[i] = ","
    THEN strip(SubSeq(name, 1, (CHOOSE i \in 1..Len(name) :
                                   name[i] = "," /\ \A k \in 1..(i - 1) : name[k] # ",") - 1))
    ELSE split(name)[Len(split(name))]

\* C23: the fallback renderer's key is the family name of the first author, lower-cased
\* and stripped, followed by the year of the entry, and web followed by the year when the
\* page lists no author; the family name is the text before the comma when the name has a
\* comma and its last word otherwise, so "Jane Doe" and "Doe, Jane" with year 2021 both
\* give doe2021.
C23_Key ==
    OnRenderedPage =>
        LET authors == AuthorsOf(call.net.html)
            key == KeyOf(call.value.v)
            year == YearOf(call.value.v)
        IN  /\ authors = <<>> => key = << "web", year >>
            /\ authors # <<>> => key = sub_non_alnum(lower(FamilyName(authors[1]))) \o << year >>
            /\ (authors # <<>> /\ year = "2021"
                /\ authors[1] \in { << "Jane", " ", "Doe" >>, << "Doe", ",", " ", "Jane" >> })
                   => key = << "doe", "2021" >>

\* a page whose first author is written "Doe, Jane", dated 2021, got the key doe2021
C23_Witness ==
    /\ OnRenderedPage
    /\ AuthorsOf(call.net.html) # <<>>
    /\ AuthorsOf(call.net.html)[1] = << "Doe", ",", " ", "Jane" >>
    /\ KeyOf(call.value.v) = << "doe", "2021" >>

\* the texts the renderers write in place of data the source does not have
Placeholders == { "Unknown", "Unkn", "Unknown Author", "Unknown Title", "None" }

\* C24 as the specification states it: in an entry a handler renders itself no field has an
\* empty value and no field holds a placeholder for data the source did not provide.
C24_AsStated ==
    ManuallyRendered =>
        \A i \in 1..(Len(call.value.v) - 2) :
            (call.value.v[i] = "=" /\ call.value.v[i + 1] = "{") =>
                /\ call.value.v[i + 2] # "}"
                /\ call.value.v[i + 2] \notin Placeholders

(***************************************************************************)
(* Properties of UrlParamHandler (SpecExtract).                            *)
(***************************************************************************)
\* C25 as the specification states it: on a URL that UrlParamHandler handles, its
\* extract_bibtex makes no request and returns the decoded value of the first bib
\* parameter as it is, never a failure.
C25_AsStated ==
    (/\ call.op = "extract_bibtex" /\ call.h = "UrlParamHandler"
     /\ can_handle("UrlParamHandler", call.url))
    => /\ call.log = <<>>
       /\ call.value.t = "str"
       /\ call.value.v = BibParams(call.url)[1].value

(***************************************************************************)
(* Frame properties of the registry (SpecRegistry).                        *)
(***************************************************************************)
\* the positions at which handler h is registered
Occurrences(handlers, h) == { i \in 1..Len(handlers) : handlers[i] = h }

\* C26: unregister(h) leaves the registry as it is when h is not registered; otherwise it
\* removes the earliest occurrence of h and nothing else, the other entries keeping their
\* order, so a handler registered twice is still registered after one unregister and the
\* URLs it handles still resolve.
C26_Unregister ==
    [][call'.op = "unregister" =>
          LET h == call'.h
              occ == Occurrences(_handlers, h)
              first == CHOOSE i \in occ : \A k \in occ : i <= k
          IN  /\ occ = {} => _handlers' = _handlers
              /\ occ # {} =>
                     /\ Len(_handlers') = Len(_handlers) - 1
                     /\ \A k \in 1..(first - 1) : _handlers'[k] = _handlers[k]
                     /\ \A k \in first..Len(_handlers') : _handlers'[k] = _handlers[k + 1]
              /\ Cardinality(occ) >= 2 =>
                     /\ Occurrences(_handlers', h) # {}
                     /\ \A url \in SomeUrls :
                            can_handle(h, url) =>
                                HandlerRegistry_get_handler(_handlers', url) # None
              /\ call'.log = <<>>
              /\ _session' = _session
              /\ made' = made]_vars

\* a handler is still registered after its unregister, behind a different handler: it was
\* registered twice among three entries
C26_Witness ==
    /\ call.op = "unregister"
    /\ Len(_handlers) = 2
    /\ _handlers[1] # call.h
    /\ _handlers[2] = call.h
    /\ \E url \in SomeUrls : HandlerRegistry_get_handler(_handlers, url) = call.h

\* C27: register(h) puts h after all the entries there were and changes nothing else; so
\* every URL that resolved to a handler resolves to the same handler afterwards, and a
\* URL that resolved to none resolves to h if h handles it and to none otherwise.
C27_Register ==
    [][call'.op = "register" =>
          LET h == call'.h
          IN  /\ Len(_handlers') = Len(_handlers) + 1
              /\ \A k \in 1..Len(_handlers) : _handlers'[k] = _handlers[k]
              /\ _handlers'[Len(_handlers')] = h
              /\ \A url \in SomeUrls :
                     LET before == HandlerRegistry_get_handler(_handlers, url)
                         after == HandlerRegistry_get_handler(_handlers', url)
                     IN  /\ before # None => after = before
                         /\ before = None => after = (IF can_handle(h, url) THEN h ELSE None)
              /\ call'.log = <<>>
              /\ _session' = _session
              /\ made' = made]_vars

\* the handler registered last handles a URL that an earlier, different handler still
\* gets, and it gets a URL that no earlier handler takes
C27_Witness ==
    /\ call.op = "register"
    /\ Len(_handlers) >= 2
    /\ _handlers[Len(_handlers)] = call.h
    /\ Occurrences(_handlers, call.h) = { Len(_handlers) }
    /\ \E url \in SomeUrls :
           /\ can_handle(call.h, url)
           /\ HandlerRegistry_get_handler(_handlers, url) # call.h
    /\ \E url \in SomeUrls : HandlerRegistry_get_handler(_handlers, url) = call.h

(***************************************************************************)
(* Rate limiting in fetch_with_retry (SpecFetch).                          *)
(***************************************************************************)
\* every response so far was a 429 whose Retry-After is absent or a number of seconds
OnlyRateLimited ==
    \A i \in 1..Len(Responses) : Responses[i].why = "429" /\ Asked(Responses[i]) >= 0

Handed == IF call.invoked = << "PIIHandler" >> THEN After(call.value, "pii/")
          ELSE After(call.value, "doi.org/")

ZenodoRecordForm == { << {"zenodo.org/"}, {"record/", "records/"}, Digits >> }
ZenodoDoiForm == { << {"doi.org/"}, ZenodoDois >> }

\* the last call went into _extract_zenodo of GitHubHandler
InZenodoBranch ==
    /\ call.op = "convert"
    /\ \E i \in 1..Len(call.invoked) : call.invoked[i] = "GitHubHandler"
    /\ Search(ZENODO_PATTERN, call.url)

====
